---- MODULE Spec2Model ----
(***************************************************************************)
(* StPageFlip: the page index / spread model (PageCollection, in its three *)
(* revisions) and the flip state machine (Flip).                           *)
(*                                                                         *)
(*   part_000                      PageCollection, per-orientation loop    *)
(*                                 zones (the "loop-zone" revision)        *)
(*   part_001                      PageCollection, single loop zone        *)
(*                                 (definitions suffixed V1)               *)
(*   src/Collection/PageCollection.ts  PageCollection, virtualSpreadMap    *)
(*                                 (definitions suffixed Map)              *)
(*   part_002                      Flip                                    *)
(*                                                                         *)
(* Pages are identified by their index in the page list; array indices are *)
(* 0-based as in the source, sequences are read through At.                *)
(***************************************************************************)
EXTENDS Integers, Sequences, FiniteSets, TLC

\* ---------------------------------------------------------------- bounds
MaxPages == 4
MaxVirtualPages == 6
MaxDrift == 1
MaxFlipPages == 2

\* ------------------------------------------------------------ primitives
Null == -1
Undefined == -2

PORTRAIT == "portrait"
LANDSCAPE == "landscape"
SOFT == "soft"
HARD == "hard"

NoThrow == "none"
TypeError == "TypeError"
InvalidPage == "Error: Invalid page"

\* a[i] of a 0-based array; InRange is "a[i] is not undefined"
At(a, i) == a[i + 1]
InRange(a, i) == i >= 0 /\ i < Len(a)

\* Math.floor(a / b) for a >= 0, b > 0
Floor(a, b) == a \div b

\* Array.prototype.includes on a spread; spread[1] of a one-page spread is
\* undefined and equals no page number
isPageInSpread(pageNum, spread) == \E k \in 1..Len(spread) : spread[k] = pageNum

VARIABLES
    loaded,                 \* load() has populated the page list
    pageCount,              \* pages.length
    density,                \* pages[i].getDensity(), 0-based through At
    isShowCover,            \* settings.showCover
    totalVirtualPages,      \* settings.totalVirtualPages (0: no virtualization)
    orientation,            \* render.getOrientation()
    landscapeSpread,
    portraitSpread,
    virtualLandscapeSpread,
    virtualPortraitSpread,
    landscapeLoopZone,
    portraitLoopZone,
    currentPageIndex,
    currentSpreadIndex,
    virtualPageIndex,
    virtualSpreadIndex,
    leftPage,               \* render.setLeftPage
    rightPage,              \* render.setRightPage
    pageIndexEvent,         \* last app.updatePageIndex(...)
    threw,                  \* exception raised by the last PageCollection call
    lastOp,                 \* the last PageCollection call
    revision,               \* the revision of PageCollection the book runs
    loopZoneStart,          \* part_001
    loopZoneEnd,            \* part_001
    loopSpreadIndex,        \* part_001
    virtualSpreadMap,       \* PageCollection.ts
    virtualCurrentPageIndex,\* PageCollection.ts
    state,                  \* Flip.state
    calc,                   \* Flip.calc, NoCalc for null
    flippingPage,           \* Flip.flippingPage
    bottomPage,             \* Flip.bottomPage
    coverAnimation,         \* Flip.coverAnimation
    animation,              \* render.animation, NoAnimation for null
    renderFlippingPage,     \* render.setFlippingPage
    renderBottomPage,       \* render.setBottomPage
    shadow,                 \* render.setShadowData / clearShadow
    direction,              \* render.setDirection
    coverDuration,          \* settings.coverDuration, in frame periods
    disableFlipByClick,     \* settings.disableFlipByClick
    startFinishesPrior,     \* the render's startAnimation force-completes the
                            \* animation in flight (TRUE) or replaces it (FALSE)
    flipThrew,              \* exception raised by the last Flip call
    lastCall,               \* the last Flip call: what start() resolved and
                            \* answered in it, and whether a session was live
                            \* when start() was entered
    flipSetting             \* the last Settings.getSettings call: the merged
                            \* configuration, the error and the object returned

config == <<isShowCover, totalVirtualPages, orientation, revision>>
book == <<loaded, pageCount, density, landscapeSpread, portraitSpread,
          virtualLandscapeSpread, virtualPortraitSpread,
          landscapeLoopZone, portraitLoopZone>>
cursor == <<currentPageIndex, currentSpreadIndex, virtualPageIndex,
            virtualSpreadIndex>>
sink == <<leftPage, rightPage, pageIndexEvent>>
v1Zone == <<loopZoneStart, loopZoneEnd, loopSpreadIndex>>
mapVars == <<virtualSpreadMap, virtualCurrentPageIndex>>
flipSettings == <<coverDuration, disableFlipByClick, startFinishesPrior,
                  flipSetting>>
session == <<state, calc, flippingPage, bottomPage>>
renderSink == <<renderFlippingPage, renderBottomPage, shadow, direction>>
flipVars == <<flipSettings, session, coverAnimation, animation, renderSink,
              flipThrew, lastCall>>
vars == <<config, book, cursor, sink, threw, lastOp, v1Zone, mapVars, flipVars>>

LoopZoneRevision == "part_000"
SingleZoneRevision == "part_001"
SpreadMapRevision == "PageCollection.ts"

ZeroZone == [start |-> 0, end |-> 0, centerIndex |-> 0]

\* ------------------------------------------------ createSpread (part_000)
\* for (i = start; i < pages.length; i += 2) push [i, i+1] or the solo [i]
RECURSIVE LandscapeFrom(_, _)
LandscapeFrom(i, n) ==
    IF i >= n THEN << >>
    ELSE IF i < n - 1 THEN << <<i, i + 1>> >> \o LandscapeFrom(i + 2, n)
    ELSE << <<i>> >>

\* the cover is pushed but the pairing still starts at page 0
createLandscapeSpreadNoSkip(n, cover) ==
    IF cover THEN << <<0>> >> \o LandscapeFrom(0, n) ELSE LandscapeFrom(0, n)

createLandscapeSpread(n, cover) ==
    IF cover THEN << <<0>> >> \o LandscapeFrom(1, n) ELSE LandscapeFrom(0, n)

createPortraitSpread(n) == [k \in 1..n |-> <<k - 1>>]

\* page 0 is set HARD under showCover, the trailing solo page is left alone
createSpreadDensityCoverOnly(n, cover, dens) ==
    [k \in 1..n |-> IF cover /\ k = 1 THEN HARD ELSE dens[k]]

\* page 0 is set HARD under showCover, a trailing solo page is set HARD
createSpreadDensity(n, cover, dens) ==
    LET start == IF cover THEN 1 ELSE 0
        solo == n > start /\ (n - start) % 2 = 1
    IN [k \in 1..n |->
            IF (cover /\ k = 1) \/ (solo /\ k = n) THEN HARD ELSE dens[k]]

\* createSpread throws at pages[0].setDensity when the list is empty and
\* covers are shown: the portrait partition is built, nothing else is
createSpreadThrows(n, cover) == cover /\ n = 0

\* ----------------------------------------- createVirtualSpreads (part_000)
RECURSIVE VirtualLandscapeFrom(_, _)
VirtualLandscapeFrom(i, t) ==
    IF i >= t THEN << >>
    ELSE IF i < t - 1 THEN << <<i, i + 1>> >> \o VirtualLandscapeFrom(i + 2, t)
    ELSE << <<i>> >>

createVirtualLandscapeSpread(t) == VirtualLandscapeFrom(0, t)
createVirtualPortraitSpread(t) == [k \in 1..t |-> <<k - 1>>]

\* ------------------------------------------- calculateLoopZone (part_000)
\* the spread count halved twice
calculateLoopZoneQuarter(r, v, old) ==
    IF v > r
    THEN [centerIndex |-> Floor(r, 4), start |-> Floor(r, 4),
          end |-> v - Floor(r, 4)]
    ELSE old

\* the zone of one orientation: real spread count r, virtual spread count v,
\* old the zone held before the call (kept when v <= r)
calculateLoopZone(r, v, old) ==
    IF v > r
    THEN [centerIndex |-> Floor(r, 2), start |-> Floor(r, 2),
          end |-> v - Floor(r, 2)]
    ELSE old

\* ------------------------------------------------------ getSpread
getSpread(useVirtual) ==
    IF useVirtual
    THEN (IF orientation = LANDSCAPE THEN virtualLandscapeSpread
          ELSE virtualPortraitSpread)
    ELSE (IF orientation = LANDSCAPE THEN landscapeSpread ELSE portraitSpread)

loopZone == IF orientation = LANDSCAPE THEN landscapeLoopZone ELSE portraitLoopZone

\* isInLoopZone for a virtual spread cursor vsi
isInLoopZone(vsi) ==
    /\ totalVirtualPages # 0
    /\ vsi >= loopZone.start
    /\ vsi < loopZone.end

\* the tail of the book mapped back to front
realSpreadIndexOfMirrored(vi, zone, r, v) ==
    IF vi < zone.start THEN vi
    ELSE IF vi >= zone.start /\ vi < zone.end THEN zone.centerIndex
    ELSE r - 1 - (vi - zone.end)

\* the tail of the book counted from one spread too early
realSpreadIndexOfShifted(vi, zone, r, v) ==
    IF vi < zone.start THEN vi
    ELSE IF vi >= zone.start /\ vi < zone.end THEN zone.centerIndex
    ELSE r - (v - zone.end) + (vi - zone.end) - 1

\* getRealSpreadIndex over an explicit zone, real count r and virtual count v
realSpreadIndexOf(vi, zone, r, v) ==
    IF vi < zone.start THEN vi
    ELSE IF vi >= zone.start /\ vi < zone.end THEN zone.centerIndex
    ELSE r - (v - zone.end) + (vi - zone.end)

getRealSpreadIndex(vi) ==
    IF totalVirtualPages = 0 THEN vi
    ELSE realSpreadIndexOf(vi, loopZone, Len(getSpread(FALSE)), Len(getSpread(TRUE)))

Min(S) == CHOOSE x \in S : \A y \in S : x <= y

\* a scan that compares the page number with the first member only
getSpreadIndexByFirstPage(pageNum) ==
    LET spread == getSpread(FALSE)
        hits == {i \in 0..(Len(spread) - 1) : At(spread, i)[1] = pageNum}
    IN IF hits = {} THEN Null ELSE Min(hits)

\* ------------------------------------------------ getSpreadIndexByPage
getSpreadIndexByPage(pageNum) ==
    LET spread == getSpread(FALSE)
        hits == {i \in 0..(Len(spread) - 1) : isPageInSpread(pageNum, At(spread, i))}
    IN IF hits = {} THEN Null ELSE Min(hits)

\* ----------------------------------- getVirtualSpreadIndexByPage (part_000)
\* the result is [threw, index]; index Null is the not-found signal
getVirtualSpreadIndexByPage(pageNum) ==
    IF totalVirtualPages = 0
    THEN [threw |-> NoThrow, index |-> getSpreadIndexByPage(pageNum)]
    ELSE
    LET virtualSpread == getSpread(TRUE)
        zone == loopZone
        \* 1. before the loop zone
        before == {i \in 0..(zone.start - 1) :
                     InRange(virtualSpread, i)
                     /\ isPageInSpread(pageNum, At(virtualSpread, i))}
        undefinedBefore == {i \in 0..(zone.start - 1) : ~InRange(virtualSpread, i)}
        \* 3. after the loop zone
        endOffset == Len(virtualSpread) - zone.end
        after == {zone.end + i : i \in
                     {j \in 0..(endOffset - 1) :
                        InRange(virtualSpread, zone.end + j)
                        /\ isPageInSpread(pageNum, At(virtualSpread, zone.end + j))}}
    IN IF before # {} THEN [threw |-> NoThrow, index |-> Min(before)]
       ELSE IF undefinedBefore # {} THEN [threw |-> TypeError, index |-> Null]
       \* 2. the page NUMBER is compared with the zone's spread bounds
       ELSE IF pageNum >= zone.start /\ pageNum < zone.end
            THEN [threw |-> NoThrow, index |-> zone.centerIndex]
       ELSE IF after # {} THEN [threw |-> NoThrow, index |-> Min(after)]
       ELSE [threw |-> NoThrow, index |-> Null]

getVirtualPageCount == IF totalVirtualPages # 0 THEN totalVirtualPages ELSE pageCount

\* ------------------------------------------------- showSpread (part_000)
\* the effect of showSpread() with the cursors at csi / vsi: what it wrote
\* before it returned or threw
showSpreadFrom(shownNow, csi, vsi) ==
    LET spreads == getSpread(FALSE)
        kept == [shownNow EXCEPT !.threw = TypeError]
    IN IF ~InRange(spreads, csi) THEN kept
       ELSE
       LET spread == At(spreads, csi)
           two == Len(spread) = 2
           lastSolo == orientation = LANDSCAPE /\ spread[1] = pageCount - 1
           l == IF two THEN spread[1] ELSE IF lastSolo THEN spread[1] ELSE Null
           r == IF two THEN spread[2] ELSE IF lastSolo THEN Null ELSE spread[1]
           shown == [kept EXCEPT !.left = l, !.right = r, !.cpi = spread[1]]
       IN IF totalVirtualPages # 0
          THEN IF ~InRange(getSpread(TRUE), vsi) THEN shown
               ELSE [shown EXCEPT !.threw = NoThrow,
                                  !.vpi = At(getSpread(TRUE), vsi)[1],
                                  !.evt = At(getSpread(TRUE), vsi)[1]]
          ELSE [shown EXCEPT !.threw = NoThrow, !.evt = spread[1]]

showSpread(csi, vsi) ==
    showSpreadFrom([threw |-> NoThrow, left |-> leftPage, right |-> rightPage,
                    cpi |-> currentPageIndex, vpi |-> virtualPageIndex,
                    evt |-> pageIndexEvent], csi, vsi)

\* the cursors move to csi / vsi and showSpread() runs
MoveAndShow(csi, vsi) ==
    LET res == showSpread(csi, vsi)
    IN /\ currentSpreadIndex' = csi
       /\ virtualSpreadIndex' = vsi
       /\ currentPageIndex' = res.cpi
       /\ virtualPageIndex' = res.vpi
       /\ leftPage' = res.left
       /\ rightPage' = res.right
       /\ pageIndexEvent' = res.evt
       /\ threw' = res.threw

NoMove(exc) ==
    /\ UNCHANGED <<cursor, sink>>
    /\ threw' = exc

\* the cursors stay within MaxDrift of their arrays
Bounded(csi, vsi) ==
    /\ csi >= 0 - MaxDrift
    /\ csi <= Len(getSpread(FALSE)) + MaxDrift
    /\ vsi >= 0 - MaxDrift
    /\ vsi <= Len(getSpread(TRUE)) + MaxDrift

\* ---------------------------------------------------- showNext (part_000)
\* the cursors after the increments of showNext, and whether showSpread runs
showNextStepOf(csi0, vsi0) ==
    IF totalVirtualPages # 0
    THEN IF isInLoopZone(vsi0)
         THEN [csi |-> csi0, vsi |-> vsi0 + 1, show |-> TRUE]
         ELSE IF vsi0 < Len(getSpread(TRUE))
              THEN [csi |-> csi0 + 1, vsi |-> vsi0 + 1,
                    show |-> TRUE]
              ELSE [csi |-> csi0, vsi |-> vsi0,
                    show |-> FALSE]
    ELSE IF csi0 < Len(getSpread(FALSE))
         THEN [csi |-> csi0 + 1, vsi |-> vsi0, show |-> TRUE]
         ELSE [csi |-> csi0, vsi |-> vsi0, show |-> FALSE]

showNextStep == showNextStepOf(currentSpreadIndex, virtualSpreadIndex)

showPrevStepOf(csi0, vsi0) ==
    IF totalVirtualPages # 0
    THEN IF isInLoopZone(vsi0)
         THEN [csi |-> csi0, vsi |-> vsi0 - 1, show |-> TRUE]
         ELSE IF vsi0 > 0
              THEN [csi |-> csi0 - 1, vsi |-> vsi0 - 1,
                    show |-> TRUE]
              ELSE [csi |-> csi0, vsi |-> vsi0,
                    show |-> FALSE]
    ELSE IF csi0 > 0
         THEN [csi |-> csi0 - 1, vsi |-> vsi0, show |-> TRUE]
         ELSE [csi |-> csi0, vsi |-> vsi0, show |-> FALSE]

showPrevStep == showPrevStepOf(currentSpreadIndex, virtualSpreadIndex)

Turn(step) ==
    /\ Bounded(step.csi, step.vsi)
    /\ IF step.show THEN MoveAndShow(step.csi, step.vsi) ELSE NoMove(NoThrow)
    /\ UNCHANGED <<config, book>>

ShowNext ==
    /\ loaded /\ revision = LoopZoneRevision
    /\ Turn(showNextStep)
    /\ lastOp' = "showNext"
    /\ UNCHANGED <<v1Zone, mapVars, flipVars>>

ShowPrev ==
    /\ loaded /\ revision = LoopZoneRevision
    /\ Turn(showPrevStep)
    /\ lastOp' = "showPrev"
    /\ UNCHANGED <<v1Zone, mapVars, flipVars>>

\* -------------------------------------------------------- show (part_000)
\* show(pageNum) for a number; show() with no argument is ShowCurrent
showStep(pageNum) ==
    IF pageNum < 0 \/ pageNum >= getVirtualPageCount
    THEN [csi |-> currentSpreadIndex, vsi |-> virtualSpreadIndex, show |-> FALSE,
          threw |-> NoThrow]
    ELSE
    LET found == IF totalVirtualPages # 0
                 THEN getVirtualSpreadIndexByPage(pageNum)
                 ELSE [threw |-> NoThrow, index |-> getSpreadIndexByPage(pageNum)]
    IN IF found.threw # NoThrow \/ found.index = Null
       THEN [csi |-> currentSpreadIndex, vsi |-> virtualSpreadIndex, show |-> FALSE,
             threw |-> found.threw]
       ELSE IF totalVirtualPages # 0
            THEN [csi |-> IF isInLoopZone(found.index) THEN currentSpreadIndex
                          ELSE getRealSpreadIndex(found.index),
                  vsi |-> found.index, show |-> TRUE, threw |-> NoThrow]
            ELSE [csi |-> found.index, vsi |-> virtualSpreadIndex, show |-> TRUE,
                  threw |-> NoThrow]

ShowPage(pageNum) ==
    LET step == showStep(pageNum)
    IN /\ Bounded(step.csi, step.vsi)
       /\ IF step.show THEN MoveAndShow(step.csi, step.vsi) ELSE NoMove(step.threw)
       /\ UNCHANGED <<config, book>>

Show ==
    /\ loaded /\ revision = LoopZoneRevision
    /\ \E pageNum \in (0 - 1)..(MaxVirtualPages + 1) : ShowPage(pageNum)
    /\ lastOp' = "show"
    /\ UNCHANGED <<v1Zone, mapVars, flipVars>>

ShowCurrent ==
    /\ loaded /\ revision = LoopZoneRevision
    /\ ShowPage(currentPageIndex)
    /\ lastOp' = "show"
    /\ UNCHANGED <<v1Zone, mapVars, flipVars>>

\* -------------------------------------------- setCurrentSpreadIndex (part_000)
\* what setCurrentSpreadIndex(newIndex) leaves: the spread cursor and the
\* exception; PageCollection.ts returns at once in virtual mode
setCurrentSpreadIndex(newIndex) ==
    IF revision = SpreadMapRevision /\ totalVirtualPages # 0
    THEN [csi |-> currentSpreadIndex, threw |-> NoThrow]
    ELSE IF newIndex >= 0 /\ newIndex < Len(getSpread(FALSE))
    THEN [csi |-> newIndex, threw |-> NoThrow]
    ELSE [csi |-> currentSpreadIndex, threw |-> InvalidPage]

SetCurrentSpreadIndex ==
    /\ loaded /\ revision = LoopZoneRevision
    /\ \E newIndex \in (0 - 1)..(MaxPages + 1) :
          /\ currentSpreadIndex' = setCurrentSpreadIndex(newIndex).csi
          /\ threw' = setCurrentSpreadIndex(newIndex).threw
          /\ UNCHANGED <<currentPageIndex, virtualPageIndex, virtualSpreadIndex,
                         sink>>
    /\ lastOp' = "setCurrentSpreadIndex"
    /\ UNCHANGED <<config, book, v1Zone, mapVars, flipVars>>

\* ------------------------------------------------------ load / createSpread
\* load() of a concrete collection fills the page list with n pages of any
\* density and calls createSpread()
createSpread(n, dens) ==
    /\ pageCount' = n
    /\ portraitSpread' = createPortraitSpread(n)
    /\ IF createSpreadThrows(n, isShowCover)
       THEN /\ landscapeSpread' = << >>
            /\ density' = dens
            /\ threw' = TypeError
            /\ UNCHANGED <<virtualLandscapeSpread, virtualPortraitSpread,
                           landscapeLoopZone, portraitLoopZone>>
       ELSE /\ landscapeSpread' = createLandscapeSpread(n, isShowCover)
            /\ density' = createSpreadDensity(n, isShowCover, dens)
            /\ threw' = NoThrow
            /\ IF totalVirtualPages # 0
               THEN /\ virtualLandscapeSpread' =
                          createVirtualLandscapeSpread(totalVirtualPages)
                    /\ virtualPortraitSpread' =
                          createVirtualPortraitSpread(totalVirtualPages)
                    /\ portraitLoopZone' =
                          calculateLoopZone(Len(portraitSpread'),
                              Len(virtualPortraitSpread'), portraitLoopZone)
                    /\ landscapeLoopZone' =
                          calculateLoopZone(Len(landscapeSpread'),
                              Len(virtualLandscapeSpread'), landscapeLoopZone)
               ELSE UNCHANGED <<virtualLandscapeSpread, virtualPortraitSpread,
                                landscapeLoopZone, portraitLoopZone>>

\* a book of n SOFT pages
Load ==
    /\ ~loaded /\ revision = LoopZoneRevision
    /\ \E n \in 0..MaxPages : createSpread(n, [k \in 1..n |-> SOFT])
    /\ loaded' = TRUE
    /\ lastOp' = "load"
    /\ UNCHANGED <<config, cursor, sink, v1Zone, mapVars, flipVars>>

\* books of every mix of densities
LoadAny ==
    /\ ~loaded /\ revision = LoopZoneRevision
    /\ \E n \in 0..MaxPages : \E dens \in [1..n -> {SOFT, HARD}] : createSpread(n, dens)
    /\ loaded' = TRUE
    /\ lastOp' = "load"
    /\ UNCHANGED <<config, cursor, sink, v1Zone, mapVars, flipVars>>

\* ============================================== part_001 (single loop zone)
\* createVirtualSpreads of part_001: every landscape spread is a pair, also
\* the last one of an odd page count
createVirtualLandscapeSpreadV1(t) ==
    [k \in 1..((t + 1) \div 2) |-> <<2 * (k - 1), 2 * (k - 1) + 1>>]

\* loopSpreadIndex of part_001 for the orientation at the time of the call
loopSpreadIndexV1(r, orient) ==
    IF orient = LANDSCAPE THEN Floor(r, 4) ELSE Floor(r, 2)

\* createSpread of part_001: the same partitions, then its calculateLoopZone
createSpreadV1(n, dens) ==
    /\ pageCount' = n
    /\ portraitSpread' = createPortraitSpread(n)
    /\ UNCHANGED <<landscapeLoopZone, portraitLoopZone>>
    /\ IF createSpreadThrows(n, isShowCover)
       THEN /\ landscapeSpread' = << >>
            /\ density' = dens
            /\ threw' = TypeError
            /\ UNCHANGED <<virtualLandscapeSpread, virtualPortraitSpread, v1Zone>>
       ELSE /\ landscapeSpread' = createLandscapeSpread(n, isShowCover)
            /\ density' = createSpreadDensity(n, isShowCover, dens)
            /\ threw' = NoThrow
            /\ IF totalVirtualPages # 0
               THEN LET r == IF orientation = LANDSCAPE
                             THEN Len(landscapeSpread') ELSE Len(portraitSpread')
                        v == IF orientation = LANDSCAPE
                             THEN Len(virtualLandscapeSpread')
                             ELSE Len(virtualPortraitSpread')
                    IN /\ virtualLandscapeSpread' =
                             createVirtualLandscapeSpreadV1(totalVirtualPages)
                       /\ virtualPortraitSpread' =
                             createVirtualPortraitSpread(totalVirtualPages)
                       /\ loopSpreadIndex' = loopSpreadIndexV1(r, orientation)
                       /\ loopZoneStart' = loopSpreadIndex'
                       /\ loopZoneEnd' = v - loopSpreadIndex'
               ELSE UNCHANGED <<virtualLandscapeSpread, virtualPortraitSpread, v1Zone>>

LoadV1 ==
    /\ ~loaded /\ revision = SingleZoneRevision
    /\ \E n \in 0..MaxPages : \E dens \in [1..n -> {SOFT, HARD}] : createSpreadV1(n, dens)
    /\ loaded' = TRUE
    /\ lastOp' = "load"
    /\ UNCHANGED <<config, cursor, sink, mapVars, flipVars>>

\* ====================================== PageCollection.ts (virtualSpreadMap)
isVirtualMode == totalVirtualPages # 0

\* a[i] of a JavaScript array: undefined outside it
ArrayAt(a, i) == IF InRange(a, i) THEN At(a, i) ELSE Undefined

MinOf(a, b) == IF a < b THEN a ELSE b
MaxOf(a, b) == IF a > b THEN a ELSE b

\* Array.from({length: len}, (_, i) => first + i)
ArrayFrom(len, first) == [k \in 1..len |-> first + k - 1]

\* setupVirtualSpreadMapping for n pages, spreadLen spreads of the current
\* orientation
setupVirtualSpreadMapping(n, spreadLen, orient, total) ==
    IF orient = PORTRAIT
    THEN LET startCount == MinOf(3, Floor(n, 3))
             endCount == MinOf(3, Floor(n, 3))
         IN [start |-> ArrayFrom(startCount, 0),
             middle |-> << Floor(n, 2) >>,
             end |-> ArrayFrom(endCount, n - endCount),
             threshold |-> startCount]
    ELSE IF spreadLen >= 5
         THEN [start |-> <<0, 1>>,
               middle |-> << Floor(spreadLen, 2) >>,
               end |-> <<spreadLen - 2, spreadLen - 1>>,
               threshold |-> 4]
         ELSE [start |-> ArrayFrom(spreadLen, 0),
               middle |-> << >>,
               end |-> << >>,
               threshold |-> total]

\* getVirtualSpreadIndex(virtualPageIndex) over an explicit map
virtualSpreadIndexOf(vp, map, spreadLen, orient, cover, total) ==
    IF orient = PORTRAIT
    THEN IF vp < Len(map.start) THEN ArrayAt(map.start, vp)
         ELSE IF vp >= total - Len(map.end)
              THEN ArrayAt(map.end, vp - (total - Len(map.end)))
              ELSE ArrayAt(map.middle, 0)
    ELSE
    LET spreadIndex == IF cover /\ vp = 0 THEN 0
                       ELSE Floor(vp + (IF cover THEN 0 ELSE 1), 2)
        pagesFromEnd == total - vp
    IN IF vp < map.threshold /\ spreadIndex < Len(map.start)
       THEN ArrayAt(map.start, spreadIndex)
       ELSE IF vp >= total - map.threshold /\ pagesFromEnd <= 4
            THEN MaxOf(0, IF pagesFromEnd <= 2 THEN spreadLen - 1 ELSE spreadLen - 2)
            ELSE ArrayAt(map.middle, 0)

getVirtualSpreadIndex(vp) ==
    virtualSpreadIndexOf(vp, virtualSpreadMap, Len(getSpread(FALSE)), orientation,
                         isShowCover, totalVirtualPages)

\* getSpreadIndexByPage of PageCollection.ts: in virtual mode the answer of
\* getVirtualSpreadIndex
getSpreadIndexByPageMap(pageNum) ==
    IF isVirtualMode THEN getVirtualSpreadIndex(pageNum)
    ELSE getSpreadIndexByPage(pageNum)

\* createSpread of PageCollection.ts
createSpreadMap(n, dens) ==
    /\ pageCount' = n
    /\ portraitSpread' = createPortraitSpread(n)
    /\ UNCHANGED <<landscapeLoopZone, portraitLoopZone, virtualLandscapeSpread,
                   virtualPortraitSpread, virtualCurrentPageIndex>>
    /\ IF createSpreadThrows(n, isShowCover)
       THEN /\ landscapeSpread' = << >>
            /\ density' = dens
            /\ threw' = TypeError
            /\ UNCHANGED virtualSpreadMap
       ELSE /\ landscapeSpread' = createLandscapeSpread(n, isShowCover)
            /\ density' = createSpreadDensity(n, isShowCover, dens)
            /\ threw' = NoThrow
            /\ IF isVirtualMode
               THEN virtualSpreadMap' =
                        setupVirtualSpreadMapping(n,
                            IF orientation = LANDSCAPE THEN Len(landscapeSpread')
                            ELSE Len(portraitSpread'),
                            orientation, totalVirtualPages)
               ELSE UNCHANGED virtualSpreadMap

LoadMap ==
    /\ ~loaded /\ revision = SpreadMapRevision
    /\ \E n \in 0..MaxPages : createSpreadMap(n, [k \in 1..n |-> SOFT])
    /\ loaded' = TRUE
    /\ lastOp' = "load"
    /\ UNCHANGED <<config, cursor, sink, v1Zone, flipVars>>

\* showSpread of PageCollection.ts with the spread cursor at csi and the
\* virtual page cursor at vcpi
showSpreadMap(csi, vcpi) ==
    LET spreads == getSpread(FALSE)
        kept == [threw |-> TypeError, left |-> leftPage, right |-> rightPage,
                 cpi |-> currentPageIndex, evt |-> pageIndexEvent]
    IN IF ~InRange(spreads, csi) THEN kept
       ELSE
       LET spread == At(spreads, csi)
           two == Len(spread) = 2
           lastSolo == orientation = LANDSCAPE /\ spread[1] = pageCount - 1
           l == IF two THEN spread[1] ELSE IF lastSolo THEN spread[1] ELSE Null
           r == IF two THEN spread[2] ELSE IF lastSolo THEN Null ELSE spread[1]
           shown == [kept EXCEPT !.left = l, !.right = r, !.threw = NoThrow]
       IN IF isVirtualMode THEN [shown EXCEPT !.evt = vcpi]
          ELSE [shown EXCEPT !.cpi = spread[1], !.evt = spread[1]]

MoveAndShowMap(csi, vcpi) ==
    LET res == showSpreadMap(csi, vcpi)
    IN /\ currentSpreadIndex' = csi
       /\ virtualCurrentPageIndex' = vcpi
       /\ currentPageIndex' = res.cpi
       /\ leftPage' = res.left
       /\ rightPage' = res.right
       /\ pageIndexEvent' = res.evt
       /\ threw' = res.threw
       /\ UNCHANGED <<virtualPageIndex, virtualSpreadIndex, virtualSpreadMap>>

NoMoveMap(exc) ==
    /\ UNCHANGED <<cursor, sink, mapVars, flipVars>>
    /\ threw' = exc

increment == IF orientation = PORTRAIT THEN 1 ELSE 2

\* showNext / showPrev of PageCollection.ts; d is +1 or -1
turnMap(d) ==
    IF isVirtualMode
    THEN LET can == IF d = 1
                    THEN virtualCurrentPageIndex < totalVirtualPages - increment
                    ELSE virtualCurrentPageIndex >= increment
         IN IF can
            THEN /\ virtualCurrentPageIndex' = virtualCurrentPageIndex + d * increment
                 /\ pageIndexEvent' = virtualCurrentPageIndex'
                 /\ threw' = NoThrow
                 /\ UNCHANGED <<cursor, leftPage, rightPage, virtualSpreadMap>>
            ELSE NoMoveMap(NoThrow)
    ELSE LET can == IF d = 1
                    THEN currentSpreadIndex < Len(getSpread(FALSE)) - 1
                    ELSE currentSpreadIndex > 0
         IN IF can
            THEN MoveAndShowMap(currentSpreadIndex + d, virtualCurrentPageIndex)
            ELSE NoMoveMap(NoThrow)

ShowNextMap ==
    /\ loaded /\ revision = SpreadMapRevision
    /\ turnMap(1)
    /\ lastOp' = "showNext"
    /\ UNCHANGED <<config, book, v1Zone, flipVars>>

ShowPrevMap ==
    /\ loaded /\ revision = SpreadMapRevision
    /\ turnMap(0 - 1)
    /\ lastOp' = "showPrev"
    /\ UNCHANGED <<config, book, v1Zone, flipVars>>

\* show(pageNum) of PageCollection.ts
showPageMap(pageNum) ==
    IF isVirtualMode
    THEN IF pageNum < 0 \/ pageNum >= totalVirtualPages THEN NoMoveMap(NoThrow)
         ELSE MoveAndShowMap(getVirtualSpreadIndex(pageNum), pageNum)
    ELSE IF pageNum < 0 \/ pageNum >= pageCount THEN NoMoveMap(NoThrow)
         ELSE IF getSpreadIndexByPage(pageNum) = Null THEN NoMoveMap(NoThrow)
         ELSE MoveAndShowMap(getSpreadIndexByPage(pageNum), virtualCurrentPageIndex)

ShowMap ==
    /\ loaded /\ revision = SpreadMapRevision
    /\ \E pageNum \in (0 - 1)..(MaxVirtualPages + 1) : showPageMap(pageNum)
    /\ lastOp' = "show"
    /\ UNCHANGED <<config, book, v1Zone, flipVars>>

ShowCurrentMap ==
    /\ loaded /\ revision = SpreadMapRevision
    /\ showPageMap(IF isVirtualMode THEN virtualCurrentPageIndex ELSE currentPageIndex)
    /\ lastOp' = "show"
    /\ UNCHANGED <<config, book, v1Zone, flipVars>>

\* setCurrentSpreadIndex of PageCollection.ts: ignored in virtual mode
SetCurrentSpreadIndexMap ==
    /\ loaded /\ revision = SpreadMapRevision
    /\ \E newIndex \in (0 - 1)..(MaxPages + 1) :
          /\ currentSpreadIndex' = setCurrentSpreadIndex(newIndex).csi
          /\ threw' = setCurrentSpreadIndex(newIndex).threw
          /\ UNCHANGED <<currentPageIndex, virtualPageIndex,
                         virtualSpreadIndex, sink, mapVars>>
    /\ lastOp' = "setCurrentSpreadIndex"
    /\ UNCHANGED <<config, book, v1Zone, flipVars>>

\* ============================================================ Flip (part_002)
READ == "read"
USER_FOLD == "user_fold"
FOLD_CORNER == "fold_corner"
FLIPPING == "flipping"

FORWARD == "forward"
BACK == "back"

TOP == "top"
BOTTOM == "bottom"

\* settings.cornerSensitivity
cornerSensitivity == 5

\* render.getRect(), the book at the origin of the window
Rect == [left |-> 0, top |-> 0, width |-> 600, height |-> 400, pageWidth |-> 300]

\* pointer positions: a corner and the middle of each page
Points == {<<50, 50>>, <<550, 350>>, <<250, 200>>, <<350, 200>>}

\* render.convertToBook
convertToBook(globalPos) == <<globalPos[1] - Rect.left, globalPos[2] - Rect.top>>

\* render.convertToPage, relative to the page that turns in direction dir
convertToPage(dir, globalPos) ==
    <<IF dir = FORWARD THEN globalPos[1] - Rect.left - Rect.width \div 2
                       ELSE Rect.width \div 2 - globalPos[1] + Rect.left,
      globalPos[2] - Rect.top>>

\* this.calc === null
NoCalc == [direction |-> "none", corner |-> "none", position |-> << >>]

\* new FlipCalculation(direction, corner, pageWidth, height)
FlipCalculation(dir, flipCorner) ==
    [direction |-> dir, corner |-> flipCorner, position |-> << >>]

\* render.animation === null; by is the method that handed the animation to
\* the render, page the page flipToPage was asked for when it did
NoAnimation ==
    [live |-> FALSE, frames |-> << >>, dest |-> << >>, isTurned |-> FALSE,
     needReset |-> FALSE, by |-> "none", page |-> Null]

\* the coverAnimation field as the class declares it. Time is counted in frame
\* periods: elapsed is performance.now() - startTime; progress is in 1/1000;
\* animationId is "an id is stored", scheduled "the requested frame is pending"
IdleCover ==
    [isActive |-> FALSE, isLifting |-> FALSE, elapsed |-> 0, duration |-> 0,
     startProgress |-> 0, targetProgress |-> 0, animationId |-> FALSE,
     scheduled |-> FALSE]

\* the Flip object, the render and the page cursor as one call sees them;
\* exc is the exception that ends the call, started the result of start(),
\* wrote whether the call set the area, position and angles of the pages,
\* hardAngle the hard angle it gave the flipping page, page the page the
\* last flipToPage was asked for
World ==
    [state |-> state, calc |-> calc, flippingPage |-> flippingPage,
     bottomPage |-> bottomPage, coverAnimation |-> coverAnimation,
     animation |-> animation, renderFlippingPage |-> renderFlippingPage,
     renderBottomPage |-> renderBottomPage, shadow |-> shadow,
     direction |-> direction,
     currentSpreadIndex |-> currentSpreadIndex,
     virtualSpreadIndex |-> virtualSpreadIndex,
     currentPageIndex |-> currentPageIndex, virtualPageIndex |-> virtualPageIndex,
     leftPage |-> leftPage, rightPage |-> rightPage,
     pageIndexEvent |-> pageIndexEvent, threw |-> threw,
     exc |-> NoThrow, started |-> "none", resolved |-> "none",
     wrote |-> FALSE, hardAngle |-> 0, page |-> Null]

\* no exception is propagating; every operation below passes a world in which
\* one is propagating through unchanged
Ok(w) == w.exc = NoThrow

setState(w, newState) == IF Ok(w) THEN [w EXCEPT !.state = newState] ELSE w

\* a reset that keeps the session
resetKeepsSession(w) ==
    [w EXCEPT !.coverAnimation.scheduled = FALSE]

reset(w) ==
    [w EXCEPT !.calc = NoCalc, !.flippingPage = Null, !.bottomPage = Null,
              !.coverAnimation.scheduled = FALSE]

getDirectionByPoint(touchPos) ==
    IF orientation = PORTRAIT
    THEN IF (touchPos[1] - Rect.pageWidth) * 5 <= Rect.width THEN BACK ELSE FORWARD
    ELSE IF touchPos[1] * 2 < Rect.width THEN BACK ELSE FORWARD

checkDirection(w, dir) ==
    IF revision = SpreadMapRevision /\ isVirtualMode
    THEN IF dir = FORWARD THEN virtualCurrentPageIndex < totalVirtualPages - 1
         ELSE virtualCurrentPageIndex >= 1
    ELSE IF dir = FORWARD THEN w.currentPageIndex < pageCount - 1
         ELSE w.currentPageIndex >= 1

\* this.pages[i]
pageAt(i) == IF i >= 0 /\ i < pageCount THEN i ELSE Undefined

\* getSpread()[current +- 1]; reading its length throws when it is undefined
adjacentSpread(current, dir) ==
    LET i == IF dir = FORWARD THEN current + 1 ELSE current - 1
    IN IF InRange(getSpread(FALSE), i) THEN At(getSpread(FALSE), i) ELSE << >>

getFlippingPage(current, dir) ==
    IF orientation = PORTRAIT
    THEN IF dir = FORWARD
         THEN IF pageAt(current) = Undefined
              THEN [threw |-> TypeError, page |-> Null]
              ELSE [threw |-> NoThrow, page |-> current]
         ELSE [threw |-> NoThrow, page |-> pageAt(current - 1)]
    ELSE LET spread == adjacentSpread(current, dir)
         IN IF spread = << >> THEN [threw |-> TypeError, page |-> Null]
            ELSE IF Len(spread) = 1 THEN [threw |-> NoThrow, page |-> spread[1]]
            ELSE [threw |-> NoThrow,
                  page |-> IF dir = FORWARD THEN spread[1] ELSE spread[2]]

getBottomPage(current, dir) ==
    IF orientation = PORTRAIT
    THEN [threw |-> NoThrow,
          page |-> IF dir = FORWARD THEN pageAt(current + 1) ELSE pageAt(current - 1)]
    ELSE LET spread == adjacentSpread(current, dir)
         IN IF spread = << >> THEN [threw |-> TypeError, page |-> Null]
            ELSE IF Len(spread) = 1 THEN [threw |-> NoThrow, page |-> spread[1]]
            ELSE [threw |-> NoThrow,
                  page |-> IF dir = FORWARD THEN spread[2] ELSE spread[1]]

\* getSpread()[i] of PageCollection.ts, << >> where it is undefined
spreadAtMap(i) ==
    IF InRange(getSpread(FALSE), i) THEN At(getSpread(FALSE), i) ELSE << >>

\* getFlippingPage of PageCollection.ts: in virtual mode the spread is the one
\* getVirtualSpreadIndex gives for the current virtual page
getFlippingPageMap(current, dir) ==
    IF ~isVirtualMode THEN getFlippingPage(current, dir)
    ELSE LET spread == spreadAtMap(getVirtualSpreadIndex(virtualCurrentPageIndex))
         IN IF spread = << >> THEN [threw |-> TypeError, page |-> Null]
            ELSE IF orientation = PORTRAIT
            THEN IF pageAt(spread[1]) = Undefined
                 THEN [threw |-> TypeError, page |-> Null]
                 ELSE [threw |-> NoThrow, page |-> spread[1]]
            ELSE IF Len(spread) = 1 THEN [threw |-> NoThrow, page |-> pageAt(spread[1])]
            ELSE [threw |-> NoThrow,
                  page |-> pageAt(IF dir = FORWARD THEN spread[1] ELSE spread[2])]

\* getBottomPage of PageCollection.ts: in virtual mode the page one increment
\* away from the current virtual page, null outside the virtual book
getBottomPageMap(current, dir) ==
    IF ~isVirtualMode THEN getBottomPage(current, dir)
    ELSE LET nextVirtualIndex == IF dir = FORWARD
                                 THEN virtualCurrentPageIndex + increment
                                 ELSE virtualCurrentPageIndex - increment
             spread == spreadAtMap(getVirtualSpreadIndex(nextVirtualIndex))
         IN IF nextVirtualIndex < 0 \/ nextVirtualIndex >= totalVirtualPages
            THEN [threw |-> NoThrow, page |-> Null]
            ELSE IF spread = << >> THEN [threw |-> TypeError, page |-> Null]
            ELSE IF orientation = PORTRAIT \/ Len(spread) = 1
            THEN [threw |-> NoThrow, page |-> pageAt(spread[1])]
            ELSE [threw |-> NoThrow,
                  page |-> pageAt(spread[(nextVirtualIndex % 2) + 1])]

\* start() answers false
refused(w, dir) == [w EXCEPT !.started = "false", !.resolved = dir]

\* a try block that acquires the flipping page only
acquireFlippingOnly(w, dir, flipCorner, fp, bp) ==
    IF fp.threw # NoThrow THEN refused(w, dir)
    ELSE [w EXCEPT !.flippingPage = fp.page,
                   !.direction = dir, !.calc = FlipCalculation(dir, flipCorner),
                   !.started = "true", !.resolved = dir]

\* the try block of start(): an exception of the page lookups is caught and
\* answered with false
acquire(w, dir, flipCorner, fp, bp) ==
    IF fp.threw # NoThrow THEN refused(w, dir)
    ELSE IF bp.threw # NoThrow THEN [refused(w, dir) EXCEPT !.flippingPage = fp.page]
    ELSE IF orientation = LANDSCAPE /\ fp.page = Undefined
         THEN [refused(w, dir) EXCEPT !.flippingPage = fp.page,
                                      !.bottomPage = bp.page]
    ELSE [w EXCEPT !.flippingPage = fp.page, !.bottomPage = bp.page,
                   !.direction = dir, !.calc = FlipCalculation(dir, flipCorner),
                   !.started = "true", !.resolved = dir]

\* start(): the session is reset first
start(w, globalPos) ==
    LET bookPos == convertToBook(globalPos)
        dir == getDirectionByPoint(bookPos)
        flipCorner == IF bookPos[2] * 2 >= Rect.height THEN BOTTOM ELSE TOP
    IN IF ~Ok(w) THEN w
       ELSE IF ~checkDirection(reset(w), dir) THEN refused(reset(w), dir)
       ELSE IF revision = SpreadMapRevision
       THEN acquire(reset(w), dir, flipCorner,
                    getFlippingPageMap(w.currentSpreadIndex, dir),
                    getBottomPageMap(w.currentSpreadIndex, dir))
       ELSE acquire(reset(w), dir, flipCorner,
                    getFlippingPage(w.currentSpreadIndex, dir),
                    getBottomPage(w.currentSpreadIndex, dir))

\* calc.calc(pagePos) with the answer ok
calcAt(w, pagePos, ok) ==
    IF Ok(w) /\ ok THEN [w EXCEPT !.calc.position = pagePos] ELSE w

\* calc.getFlippingProgress(): the percentage of the page turned, from the
\* distance of the point to the outer edge over twice the page width
getFlippingProgress(pagePos) ==
    LET d == IF pagePos[1] > Rect.pageWidth THEN pagePos[1] - Rect.pageWidth
             ELSE Rect.pageWidth - pagePos[1]
    IN MinOf((d * 100) \div (2 * Rect.pageWidth), 100)

\* a hard angle with the sign of the FORWARD turn in both directions
hardAngleUnmirrored(dir, progress) == 90 * (200 - progress * 2)

\* the argument of flippingPage.setHardAngle in do(), in 1/100 of a degree:
\* (90 * (200 - progress * 2)) / 100, and (-90 * (200 - progress * 2)) / 100
hardAngle(dir, progress) ==
    IF dir = FORWARD THEN 90 * (200 - progress * 2)
    ELSE (0 - 90) * (200 - progress * 2)

\* a do that does not look at the answer of calc.calc
doUnchecked(w, pagePos, ok) ==
    IF ~Ok(w) \/ w.calc = NoCalc THEN w
    ELSE IF w.bottomPage \in {Null, Undefined}
            \/ w.flippingPage \in {Null, Undefined}
    THEN [w EXCEPT !.calc.position = pagePos, !.exc = TypeError]
    ELSE [w EXCEPT !.calc.position = pagePos,
                   !.wrote = TRUE,
                   !.hardAngle = hardAngle(w.calc.direction,
                                           getFlippingProgress(pagePos)),
                   !.renderBottomPage = w.bottomPage,
                   !.renderFlippingPage = w.flippingPage,
                   !.shadow = TRUE]

\* do(pagePos); ok is the answer of calc.calc(pagePos)
do(w, pagePos, ok) ==
    IF ~Ok(w) \/ w.calc = NoCalc \/ ~ok THEN w
    ELSE IF w.bottomPage \in {Null, Undefined}
            \/ w.flippingPage \in {Null, Undefined}
    THEN [w EXCEPT !.calc.position = pagePos, !.exc = TypeError]
    ELSE [w EXCEPT !.calc.position = pagePos,
                   !.wrote = TRUE,
                   !.hardAngle = hardAngle(w.calc.direction,
                                           getFlippingProgress(pagePos)),
                   !.renderBottomPage = w.bottomPage,
                   !.renderFlippingPage = w.flippingPage,
                   !.shadow = TRUE]

\* showSpread() has run with the cursors at step.csi / step.vsi
shown(w, step, res) ==
    [w EXCEPT !.currentSpreadIndex = step.csi, !.virtualSpreadIndex = step.vsi,
              !.currentPageIndex = res.cpi, !.virtualPageIndex = res.vpi,
              !.leftPage = res.left, !.rightPage = res.right,
              !.pageIndexEvent = res.evt, !.threw = res.threw, !.exc = res.threw]

\* showNext / showPrev of the collection on the cursor the call sees
turnTo(w, step) ==
    IF ~step.show THEN w
    ELSE shown(w, step,
               showSpreadFrom([threw |-> NoThrow, left |-> w.leftPage,
                               right |-> w.rightPage, cpi |-> w.currentPageIndex,
                               vpi |-> w.virtualPageIndex,
                               evt |-> w.pageIndexEvent],
                              step.csi, step.vsi))

turnToNextPage(w) ==
    turnTo(w, showNextStepOf(w.currentSpreadIndex, w.virtualSpreadIndex))

turnToPrevPage(w) ==
    turnTo(w, showPrevStepOf(w.currentSpreadIndex, w.virtualSpreadIndex))

\* the callback's "if (needReset) ..."
resetAfter(w, needReset) ==
    IF ~Ok(w) \/ ~needReset THEN w
    ELSE reset(setState([w EXCEPT !.renderBottomPage = Null,
                                  !.renderFlippingPage = Null,
                                  !.shadow = FALSE], READ))

\* the completion callback animateFlippingTo hands to render.startAnimation
onAnimateEnd(w, isTurned, needReset) ==
    IF ~Ok(w) \/ w.calc = NoCalc THEN w
    ELSE resetAfter(IF ~isTurned THEN w
                    ELSE IF w.calc.direction = BACK THEN turnToPrevPage(w)
                    ELSE turnToNextPage(w), needReset)

clearAnimation(w) == IF Ok(w) THEN [w EXCEPT !.animation = NoAnimation] ELSE w

\* render.finishAnimation(): the last frame, the callback, animation = null
finishAnimation(w, ok) ==
    IF ~Ok(w) \/ ~w.animation.live THEN w
    ELSE clearAnimation(onAnimateEnd(do(w, w.animation.dest, ok),
                                     w.animation.isTurned, w.animation.needReset))

\* Helper.GetCordsFromTwoPoint: the points from startPoint to dest, of which
\* the last one is kept
GetCordsFromTwoPoint(startPoint, dest) == <<dest>>

\* render.startAnimation(frames, duration, onAnimateEnd) on a render that has
\* dealt with the animation in flight
startAnimation(w, anim) == IF Ok(w) THEN [w EXCEPT !.animation = anim] ELSE w

\* by is the calling method; ok is the answer of calc.calc in the last frame
\* of the animation in flight, when the render force-completes it
animateFlippingTo(w, by, startPoint, dest, isTurned, needReset, ok) ==
    IF ~Ok(w) THEN w
    ELSE IF isTurned /\ orientation = LANDSCAPE /\ w.calc = NoCalc
    THEN [w EXCEPT !.exc = TypeError]
    ELSE startAnimation(IF startFinishesPrior THEN finishAnimation(w, ok) ELSE w,
                        [live |-> TRUE,
                         frames |-> GetCordsFromTwoPoint(startPoint, dest),
                         dest |-> dest, isTurned |-> isTurned,
                         needReset |-> needReset, by |-> by,
                         page |-> w.page])

\* rect.height at the BOTTOM corner, 0 at the TOP corner
cornerY(w, inset) ==
    IF w.calc.corner = BOTTOM THEN Rect.height - inset ELSE inset

\* a stopMove that commits only past a quarter of the page
stopMovePastQuarter(w, ok) ==
    IF ~Ok(w) \/ w.calc = NoCalc THEN w
    ELSE IF w.calc.position = << >> THEN [w EXCEPT !.exc = TypeError]
    ELSE IF w.calc.position[1] <= 0 - Rect.pageWidth \div 4
    THEN animateFlippingTo(w, "stopMove", w.calc.position,
                           <<0 - Rect.pageWidth, cornerY(w, 0)>>, TRUE, TRUE, ok)
    ELSE animateFlippingTo(w, "stopMove", w.calc.position,
                           <<Rect.pageWidth, cornerY(w, 0)>>, FALSE, TRUE, ok)

stopMove(w, ok) ==
    IF ~Ok(w) \/ w.calc = NoCalc THEN w
    ELSE IF w.calc.position = << >> THEN [w EXCEPT !.exc = TypeError]
    ELSE IF w.calc.position[1] <= 0
    THEN animateFlippingTo(w, "stopMove", w.calc.position,
                           <<0 - Rect.pageWidth, cornerY(w, 0)>>, TRUE, TRUE, ok)
    ELSE animateFlippingTo(w, "stopMove", w.calc.position,
                           <<Rect.pageWidth, cornerY(w, 0)>>, FALSE, TRUE, ok)

\* do(render.convertToPage(globalPos))
doAt(w, globalPos, ok) ==
    IF Ok(w) THEN do(w, convertToPage(w.direction, globalPos), ok) ELSE w

\* a fold that starts a session on every call
foldAlwaysStarts(w, globalPos, ok) ==
    doAt(start(setState(w, USER_FOLD), globalPos), globalPos, ok)

fold(w, globalPos, ok) ==
    doAt(IF w.calc = NoCalc THEN start(setState(w, USER_FOLD), globalPos)
         ELSE setState(w, USER_FOLD), globalPos, ok)

\* x is nearer than the operating distance sqrt(pageWidth^2 + height^2) /
\* cornerSensitivity
Near(x) ==
    x < 0 \/ (x * cornerSensitivity) * (x * cornerSensitivity)
               < Rect.pageWidth * Rect.pageWidth + Rect.height * Rect.height

\* a corner test that asks for the nearness of a vertical edge only
isPointNearSide(globalPos) ==
    /\ convertToBook(globalPos)[1] > 0
    /\ convertToBook(globalPos)[2] > 0
    /\ convertToBook(globalPos)[1] < Rect.width
    /\ convertToBook(globalPos)[2] < Rect.height
    /\ (Near(convertToBook(globalPos)[1])
          \/ Near(Rect.width - convertToBook(globalPos)[1]))

isPointOnCorners(globalPos) ==
    /\ convertToBook(globalPos)[1] > 0
    /\ convertToBook(globalPos)[2] > 0
    /\ convertToBook(globalPos)[1] < Rect.width
    /\ convertToBook(globalPos)[2] < Rect.height
    /\ (Near(convertToBook(globalPos)[1])
          \/ Near(Rect.width - convertToBook(globalPos)[1]))
    /\ (Near(convertToBook(globalPos)[2])
          \/ Near(Rect.height - convertToBook(globalPos)[2]))

\* flip() after start(): topMargins = rect.height / 10
flipStarted(w, ok) ==
    IF ~Ok(w) \/ w.started # "true" THEN w
    ELSE animateFlippingTo(
             calcAt(setState(w, FLIPPING),
                    <<Rect.pageWidth - Rect.height \div 10,
                      cornerY(w, Rect.height \div 10)>>, ok),
             "flip",
             <<Rect.pageWidth - Rect.height \div 10, cornerY(w, Rect.height \div 10)>>,
             <<0 - Rect.pageWidth, cornerY(w, 0)>>, TRUE, TRUE, ok)

flip(w, globalPos, ok) ==
    IF disableFlipByClick /\ ~isPointOnCorners(globalPos) THEN w
    ELSE flipStarted(start(IF w.calc # NoCalc THEN finishAnimation(w, ok) ELSE w,
                           globalPos), ok)

\* ---------------------------------------------------- flipToPage (part_002)
\* flipNext(corner) / flipPrev(corner): the point handed to flip()
flipPoint(forward, corner) ==
    <<IF forward THEN Rect.left + Rect.pageWidth * 2 - 10 ELSE Rect.left + 10,
      IF corner = TOP THEN 1 ELSE Rect.height - 2>>

\* the catch block of flipToPage swallows the exception
caught(w) == [w EXCEPT !.exc = NoThrow]

\* setCurrentSpreadIndex(index) and the flip that follows it in the try
\* block; a throw of setCurrentSpreadIndex skips the flip
flipFrom(w, index, forward, corner, ok) ==
    IF setCurrentSpreadIndex(index).threw # NoThrow THEN w
    ELSE caught(flip([w EXCEPT !.currentSpreadIndex = index],
                     flipPoint(forward, corner), ok))

\* flipToPage(page, corner): next is null for a page in no spread, and null
\* compares and adds as the number 0
flipToPage(w, page, corner, ok) ==
    LET next == IF getSpreadIndexByPage(page) = Null THEN 0
                ELSE getSpreadIndexByPage(page)
    IN IF next > w.currentSpreadIndex
       THEN flipFrom(w, next - 1, TRUE, corner, ok)
       ELSE IF next < w.currentSpreadIndex
       THEN flipFrom(w, next + 1, FALSE, corner, ok)
       ELSE w

\* ---------------------------------------------- cover animation (part_002)
\* flippingPage.getDensity() of an undefined page throws: the callers test
\* for it before they ask
isHardPage(w) ==
    w.flippingPage \notin {Null, Undefined} /\ At(density, w.flippingPage) = HARD

\* 1 - (1 - t)^3 at t = min(elapsed / duration, 1), in 1/1000
easeOut(elapsed, duration) ==
    LET k == IF elapsed < duration THEN elapsed ELSE duration
        rest == duration - k
    IN 1000 - (1000 * rest * rest * rest) \div (duration * duration * duration)

progressAt(cover) ==
    cover.startProgress
        + ((cover.targetProgress - cover.startProgress)
              * easeOut(cover.elapsed, cover.duration)) \div 1000

getCurrentCoverProgress(w) ==
    IF ~w.coverAnimation.isActive THEN 0 ELSE progressAt(w.coverAnimation)

\* fixedCornerSize = 50; the corner travels from y = 1 to y = 50 (from the
\* edge) and from x = pageWidth - 1 to x = pageWidth - 50
updateCoverPosition(w, progress, ok) ==
    IF ~Ok(w) \/ w.calc = NoCalc THEN w
    ELSE do(w, <<Rect.pageWidth - 1 + ((1 - 50) * progress) \div 1000,
                 cornerY(w, 1)
                    + ((cornerY(w, 50) - cornerY(w, 1)) * progress) \div 1000>>,
            ok)

\* "setState(READ); render.finishAnimation(); stopMove()"
putDown(w, ok) == stopMove(finishAnimation(setState(w, READ), ok), ok)

finishCoverAnimation(w, ok) ==
    IF ~Ok(w) THEN w
    ELSE IF w.coverAnimation.isLifting
    THEN [w EXCEPT !.coverAnimation.isActive = FALSE,
                   !.coverAnimation.scheduled = FALSE,
                   !.coverAnimation.animationId = FALSE]
    ELSE putDown([w EXCEPT !.coverAnimation.isActive = FALSE,
                           !.coverAnimation.scheduled = FALSE,
                           !.coverAnimation.animationId = FALSE], ok)

\* runCoverAnimation() after updateCoverPosition()
nextCoverFrame(w, ok) ==
    IF ~Ok(w) THEN w
    ELSE IF w.coverAnimation.elapsed < w.coverAnimation.duration
    THEN [w EXCEPT !.coverAnimation.animationId = TRUE,
                   !.coverAnimation.scheduled = TRUE]
    ELSE finishCoverAnimation(w, ok)

runCoverAnimation(w, ok) ==
    IF ~Ok(w) \/ ~w.coverAnimation.isActive THEN w
    ELSE nextCoverFrame(updateCoverPosition(w, progressAt(w.coverAnimation), ok), ok)

startCoverAnimation(w, isLifting, duration, ok) ==
    IF ~Ok(w) THEN w
    ELSE runCoverAnimation(
             [w EXCEPT !.coverAnimation =
                          [isActive |-> TRUE, isLifting |-> isLifting,
                           elapsed |-> 0, duration |-> duration,
                           startProgress |-> getCurrentCoverProgress(w),
                           targetProgress |-> IF isLifting THEN 1000 ELSE 0,
                           animationId |-> FALSE, scheduled |-> FALSE]], ok)

\* a lift whose nudge resets the session at its completion
liftWithReset(w, ok) ==
    IF w.started # "true" THEN w
    ELSE IF coverDuration > 0 /\ w.flippingPage = Undefined
    THEN [setState(w, FOLD_CORNER) EXCEPT !.exc = TypeError]
    ELSE IF coverDuration > 0 /\ isHardPage(w)
    THEN startCoverAnimation(setState(w, FOLD_CORNER), TRUE, coverDuration, ok)
    ELSE animateFlippingTo(calcAt(setState(w, FOLD_CORNER),
                                  <<Rect.pageWidth - 1, 1>>, ok),
                           "showCorner",
                           <<Rect.pageWidth - 1, cornerY(w, 1)>>,
                           <<Rect.pageWidth - 50, cornerY(w, 50)>>,
                           FALSE, TRUE, ok)

\* ---------------------------------------------------- showCorner (part_002)
\* showCorner() over a corner after start():
\* "if (!this.start(globalPos)) return; this.setState(FOLD_CORNER); ..."
lift(w, ok) ==
    IF w.started # "true" THEN w
    ELSE IF coverDuration > 0 /\ w.flippingPage = Undefined
    THEN [setState(w, FOLD_CORNER) EXCEPT !.exc = TypeError]
    ELSE IF coverDuration > 0 /\ isHardPage(w)
    THEN startCoverAnimation(setState(w, FOLD_CORNER), TRUE, coverDuration, ok)
    ELSE animateFlippingTo(calcAt(setState(w, FOLD_CORNER),
                                  <<Rect.pageWidth - 1, 1>>, ok),
                           "showCorner",
                           <<Rect.pageWidth - 1, cornerY(w, 1)>>,
                           <<Rect.pageWidth - 50, cornerY(w, 50)>>,
                           FALSE, FALSE, ok)

showCornerOn(w, globalPos, ok) ==
    IF w.calc = NoCalc THEN lift(start(w, globalPos), ok)
    ELSE IF w.flippingPage = Undefined THEN [w EXCEPT !.exc = TypeError]
    ELSE IF ~isHardPage(w) THEN doAt(w, globalPos, ok)
    ELSE w

showCornerOff(w, ok) ==
    IF w.flippingPage = Undefined /\ coverDuration > 0 THEN [w EXCEPT !.exc = TypeError]
    ELSE IF /\ coverDuration > 0
            /\ isHardPage(w)
            /\ (w.coverAnimation.isActive \/ w.state = FOLD_CORNER)
    THEN startCoverAnimation(w, FALSE, coverDuration, ok)
    ELSE putDown(w, ok)

\* showCorner without its state check
showCornerAnyState(w, globalPos, ok) ==
    IF isPointOnCorners(globalPos) THEN showCornerOn(w, globalPos, ok)
    ELSE showCornerOff(w, ok)

showCorner(w, globalPos, ok) ==
    IF w.state \notin {READ, FOLD_CORNER} THEN w
    ELSE IF isPointOnCorners(globalPos) THEN showCornerOn(w, globalPos, ok)
    ELSE showCornerOff(w, ok)

\* ------------------------------------------------------------ Flip actions
\* the call op leaves the Flip object, the render and the cursor as in w
Commit(w, op) ==
    /\ Bounded(w.currentSpreadIndex, w.virtualSpreadIndex)
    /\ state' = w.state
    /\ calc' = w.calc
    /\ flippingPage' = w.flippingPage
    /\ bottomPage' = w.bottomPage
    /\ coverAnimation' = w.coverAnimation
    /\ animation' = w.animation
    /\ renderFlippingPage' = w.renderFlippingPage
    /\ renderBottomPage' = w.renderBottomPage
    /\ shadow' = w.shadow
    /\ direction' = w.direction
    /\ currentSpreadIndex' = w.currentSpreadIndex
    /\ virtualSpreadIndex' = w.virtualSpreadIndex
    /\ currentPageIndex' = w.currentPageIndex
    /\ virtualPageIndex' = w.virtualPageIndex
    /\ leftPage' = w.leftPage
    /\ rightPage' = w.rightPage
    /\ pageIndexEvent' = w.pageIndexEvent
    /\ threw' = w.threw
    /\ flipThrew' = w.exc
    /\ lastOp' = op
    /\ lastCall' = [op |-> op, direction |-> w.resolved, started |-> w.started,
                    live |-> w.started # "none" /\ calc # NoCalc,
                    page |-> w.page]
    /\ UNCHANGED <<config, book, v1Zone, mapVars, flipSettings>>

FlipReady == loaded /\ revision = LoopZoneRevision

Start ==
    /\ FlipReady
    /\ \E p \in Points : Commit(start(World, p), "start")

Fold ==
    /\ FlipReady
    /\ \E p \in Points, ok \in BOOLEAN : Commit(fold(World, p, ok), "fold")

Flip ==
    /\ FlipReady
    /\ \E p \in Points, ok \in BOOLEAN : Commit(flip(World, p, ok), "flip")

StopMove ==
    /\ FlipReady
    /\ \E ok \in BOOLEAN : Commit(stopMove(World, ok), "stopMove")

ShowCorner ==
    /\ FlipReady
    /\ \E p \in Points, ok \in BOOLEAN :
          Commit(showCorner(World, p, ok), "showCorner")

\* the render loop runs the next frame of the animation
AnimationFrame ==
    /\ FlipReady
    /\ animation.live
    /\ animation.frames # << >>
    /\ \E ok \in BOOLEAN :
          Commit(do([World EXCEPT !.animation.frames = Tail(animation.frames)],
                    Head(animation.frames), ok), "frame")

\* the render loop finds the frames used up: the callback, animation = null
AnimationEnd ==
    /\ FlipReady
    /\ animation.live
    /\ animation.frames = << >>
    /\ Commit(clearAnimation(onAnimateEnd(World, animation.isTurned,
                                          animation.needReset)), "animationEnd")

\* the frame requested by runCoverAnimation
CoverFrame ==
    /\ FlipReady
    /\ coverAnimation.scheduled
    /\ \E ok \in BOOLEAN :
          Commit(runCoverAnimation(
                     [World EXCEPT !.coverAnimation.scheduled = FALSE,
                                   !.coverAnimation.elapsed = @ + 1], ok),
                 "coverFrame")

\* fold() of part_002 over the collection of PageCollection.ts
FoldMap ==
    /\ loaded /\ revision = SpreadMapRevision
    /\ \E p \in Points, ok \in BOOLEAN : Commit(fold(World, p, ok), "fold")

\* ------------------------------------------------------------- Settings
FIXED == "fixed"
STRETCH == "stretch"

\* Settings._default, the fields getSettings reads
DefaultSetting ==
    [size |-> FIXED, width |-> 0, height |-> 0, minWidth |-> 0,
     maxWidth |-> 0, minHeight |-> 0, maxHeight |-> 0, flippingTime |-> 1000]

\* { ...this._default } overlaid with the fields the user gave
MergeSetting(present, userSetting) ==
    [f \in DOMAIN DefaultSetting |->
        IF f \in present THEN userSetting[f] ELSE DefaultSetting[f]]

\* the bounds of a STRETCH book, each defaulted in the order of the code
StretchSetting(r) ==
    LET minWidth == IF r.minWidth <= 0 THEN 100 ELSE r.minWidth
        minHeight == IF r.minHeight <= 0 THEN 100 ELSE r.minHeight
    IN [r EXCEPT !.minWidth = minWidth,
                 !.maxWidth = IF @ < minWidth THEN 2000 ELSE @,
                 !.minHeight = minHeight,
                 !.maxHeight = IF @ < minHeight THEN 2000 ELSE @]

\* getSettings without the check of the flipping time
getSettingsAnyTime(present, userSetting) ==
    LET result == MergeSetting(present, userSetting)
    IN IF result.size # STRETCH /\ result.size # FIXED
       THEN [threw |-> "Error: Invalid size type", result |-> {}]
       ELSE IF result.width <= 0 \/ result.height <= 0
       THEN [threw |-> "Error: Invalid width or height", result |-> {}]
       ELSE IF result.size = STRETCH
       THEN [threw |-> NoThrow, result |-> {StretchSetting(result)}]
       ELSE [threw |-> NoThrow,
             result |-> {[result EXCEPT !.minWidth = result.width,
                                        !.maxWidth = result.width,
                                        !.minHeight = result.height,
                                        !.maxHeight = result.height]}]

\* Settings.getSettings: the error thrown, or the object returned
getSettings(present, userSetting) ==
    LET result == MergeSetting(present, userSetting)
    IN IF result.size # STRETCH /\ result.size # FIXED
       THEN [threw |-> "Error: Invalid size type", result |-> {}]
       ELSE IF result.width <= 0 \/ result.height <= 0
       THEN [threw |-> "Error: Invalid width or height", result |-> {}]
       ELSE IF result.flippingTime <= 0
       THEN [threw |-> "Error: Invalid flipping time", result |-> {}]
       ELSE IF result.size = STRETCH
       THEN [threw |-> NoThrow, result |-> {StretchSetting(result)}]
       ELSE [threw |-> NoThrow,
             result |-> {[result EXCEPT !.minWidth = result.width,
                                        !.maxWidth = result.width,
                                        !.minHeight = result.height,
                                        !.maxHeight = result.height]}]

\* ------------------------------------------------------------------ Init
EmptyMap == [start |-> << >>, middle |-> << >>, end |-> << >>, threshold |-> 0]

\* the collection as its constructor leaves it
Constructed ==
    /\ loaded = FALSE
    /\ pageCount = 0
    /\ density = << >>
    /\ landscapeSpread = << >>
    /\ portraitSpread = << >>
    /\ virtualLandscapeSpread = << >>
    /\ virtualPortraitSpread = << >>
    /\ landscapeLoopZone = ZeroZone
    /\ portraitLoopZone = ZeroZone
    /\ currentPageIndex = 0
    /\ currentSpreadIndex = 0
    /\ virtualPageIndex = 0
    /\ virtualSpreadIndex = 0
    /\ leftPage = Null
    /\ rightPage = Null
    /\ pageIndexEvent = Null
    /\ threw = NoThrow
    /\ lastOp = "new"
    /\ loopZoneStart = 0
    /\ loopZoneEnd = 0
    /\ loopSpreadIndex = 0
    /\ virtualSpreadMap = EmptyMap
    /\ virtualCurrentPageIndex = 0
    /\ state = READ
    /\ calc = NoCalc
    /\ flippingPage = Null
    /\ bottomPage = Null
    /\ coverAnimation = IdleCover
    /\ animation = NoAnimation
    /\ renderFlippingPage = Null
    /\ renderBottomPage = Null
    /\ shadow = FALSE
    /\ direction = "none"
    /\ flipThrew = NoThrow
    /\ lastCall = [op |-> "new", direction |-> "none", started |-> "none",
                   live |-> FALSE, page |-> Null]
    /\ flipSetting = [called |-> FALSE, input |-> DefaultSetting,
                      threw |-> NoThrow, result |-> {}]

Settings ==
    /\ isShowCover \in BOOLEAN
    /\ totalVirtualPages \in 0..MaxVirtualPages
    /\ orientation \in {PORTRAIT, LANDSCAPE}
    /\ coverDuration = 0
    /\ disableFlipByClick = FALSE
    /\ startFinishesPrior = FALSE

Init ==
    /\ Constructed
    /\ Settings
    /\ revision = LoopZoneRevision

\* show, showNext, showPrev on a loaded book
Next ==
    \/ Load
    \/ ShowNext
    \/ ShowPrev
    \/ Show
    \/ ShowCurrent

Spec == Init /\ [][Next]_vars

\* the same with direct jumps of the spread cursor
NextJump ==
    \/ Load
    \/ ShowNext
    \/ ShowPrev
    \/ Show
    \/ ShowCurrent
    \/ SetCurrentSpreadIndex

SpecJump == Init /\ [][NextJump]_vars

\* createSpread alone, over every book
NextSpread == LoadAny

SpecSpread == Init /\ [][NextSpread]_vars

\* the PageCollection.ts revision
InitMap ==
    /\ Constructed
    /\ Settings
    /\ revision = SpreadMapRevision

NextMap ==
    \/ LoadMap
    \/ ShowNextMap
    \/ ShowPrevMap
    \/ ShowMap
    \/ ShowCurrentMap
    \/ SetCurrentSpreadIndexMap

SpecMap == InitMap /\ [][NextMap]_vars

\* the PageCollection.ts revision with a drag on it
NextFoldMap ==
    \/ LoadMap
    \/ ShowNextMap
    \/ ShowPrevMap
    \/ ShowMap
    \/ FoldMap

SpecFoldMap == InitMap /\ [][NextFoldMap]_vars

\* the book with orientation switches: the render reports the other
\* orientation, the collection is told nothing until show() is called
SwitchOrientation ==
    /\ loaded
    /\ orientation' = IF orientation = PORTRAIT THEN LANDSCAPE ELSE PORTRAIT
    /\ lastOp' = "orientation"
    /\ threw' = NoThrow
    /\ UNCHANGED <<isShowCover, totalVirtualPages, revision, book, cursor, sink,
                   v1Zone, mapVars, flipVars>>

InitOrient ==
    /\ Constructed
    /\ Settings
    /\ revision \in {LoopZoneRevision, SpreadMapRevision}

\* show() after the moves of the cursor and the switches of orientation
NextOrient ==
    \/ Load
    \/ ShowNext
    \/ ShowPrev
    \/ ShowCurrent
    \/ LoadMap
    \/ ShowNextMap
    \/ ShowPrevMap
    \/ ShowCurrentMap
    \/ SwitchOrientation

SpecOrient == InitOrient /\ [][NextOrient]_vars

\* the scenario of 100 virtual pages over 6 real landscape spreads
InitScenario ==
    /\ Constructed
    /\ isShowCover \in BOOLEAN
    /\ totalVirtualPages = 100
    /\ orientation = LANDSCAPE
    /\ coverDuration = 0
    /\ disableFlipByClick = FALSE
    /\ startFinishesPrior = FALSE
    /\ revision \in {LoopZoneRevision, SpreadMapRevision}

LoadScenario ==
    /\ ~loaded
    /\ \E n \in 9..12 :
          /\ IF revision = LoopZoneRevision
             THEN createSpread(n, [k \in 1..n |-> SOFT]) /\ UNCHANGED mapVars
             ELSE createSpreadMap(n, [k \in 1..n |-> SOFT])
          /\ Len(landscapeSpread') = 6
    /\ loaded' = TRUE
    /\ lastOp' = "load"
    /\ UNCHANGED <<config, cursor, sink, v1Zone, flipVars>>

\* pages at the ends of the book, around the zone bounds and in the middle
ScenarioPages == {0, 1, 5, 6, 46, 47, 50, 93, 94, 96, 98, 99}

ShowScenario ==
    /\ loaded
    /\ \E pageNum \in ScenarioPages :
          IF revision = LoopZoneRevision
          THEN ShowPage(pageNum) /\ UNCHANGED mapVars
          ELSE showPageMap(pageNum) /\ UNCHANGED <<config, book>>
    /\ lastOp' = "show"
    /\ UNCHANGED <<v1Zone, flipVars>>

NextScenario ==
    \/ LoadScenario
    \/ ShowScenario
    \/ ShowNext
    \/ ShowPrev
    \/ ShowNextMap
    \/ ShowPrevMap

SpecScenario == InitScenario /\ [][NextScenario]_vars

\* createSpread of part_001, over every book
InitV1 ==
    /\ Constructed
    /\ Settings
    /\ revision = SingleZoneRevision

NextV1 == LoadV1

SpecV1 == InitV1 /\ [][NextV1]_vars

\* the flip state machine over a loaded book
InitFlip ==
    /\ Constructed
    /\ isShowCover \in BOOLEAN
    /\ totalVirtualPages = 0
    /\ orientation \in {PORTRAIT, LANDSCAPE}
    /\ coverDuration \in {0, 1}
    /\ disableFlipByClick \in IF coverDuration = 0 THEN BOOLEAN ELSE {FALSE}
    /\ startFinishesPrior \in BOOLEAN
    /\ revision = LoopZoneRevision

\* a book of up to MaxFlipPages SOFT pages
LoadFlip ==
    /\ ~loaded /\ revision = LoopZoneRevision
    /\ \E n \in 0..MaxFlipPages : createSpread(n, [k \in 1..n |-> SOFT])
    /\ loaded' = TRUE
    /\ lastOp' = "load"
    /\ UNCHANGED <<config, cursor, sink, v1Zone, mapVars, flipVars>>

NextFlip ==
    \/ LoadFlip
    \/ Start
    \/ Fold
    \/ Flip
    \/ StopMove
    \/ ShowCorner
    \/ AnimationFrame
    \/ AnimationEnd
    \/ CoverFrame

SpecFlip == InitFlip /\ [][NextFlip]_vars

\* one drag on an idle book: fold(p1) ... fold(pk), then stopMove(), and
\* after the release only the render loop runs
DragFold ==
    /\ lastOp \in {"load", "fold"}
    /\ Fold

DragRelease ==
    /\ lastOp = "fold"
    /\ StopMove

NextDrag ==
    \/ LoadFlip
    \/ DragFold
    \/ DragRelease
    \/ AnimationFrame
    \/ AnimationEnd

\* the render loop keeps running: a pending frame and a pending completion
\* callback are eventually executed
SpecDrag ==
    /\ InitFlip
    /\ [][NextDrag]_vars
    /\ WF_vars(AnimationFrame)
    /\ WF_vars(AnimationEnd)

\* flipToPage on a book of up to MaxPages SOFT pages
FlipToPage ==
    /\ FlipReady
    /\ \E page \in ((0 - 3)..MaxPages) \ {Null, Undefined}, corner \in {TOP, BOTTOM}, ok \in BOOLEAN :
          Commit(flipToPage([World EXCEPT !.page = page], page, corner, ok),
                 "flipToPage")

NextFlipTo ==
    \/ Load
    \/ FlipToPage
    \/ AnimationFrame
    \/ AnimationEnd

SpecFlipTo == InitFlip /\ [][NextFlipTo]_vars

\* =================================================================== claims

\* occurrences of page p in a list of spreads
Occurrences(spreads, p) ==
    {<<i, k>> \in (DOMAIN spreads) \X {1, 2} :
        k <= Len(spreads[i]) /\ spreads[i][k] = p}

PagesOf(spreads) ==
    {spreads[i][k] : <<i, k>> \in
        {ik \in (DOMAIN spreads) \X {1, 2} : ik[2] <= Len(spreads[ik[1]])}}

\* C1: after createSpread every page index in [0, n) appears in exactly one
\* landscape spread and in exactly one portrait spread, and no spread holds an
\* index outside [0, n)
SpreadPartitionTotality ==
    loaded =>
        /\ \A p \in 0..(pageCount - 1) :
              /\ Cardinality(Occurrences(landscapeSpread, p)) = 1
              /\ Cardinality(Occurrences(portraitSpread, p)) = 1
        /\ PagesOf(landscapeSpread) \subseteq 0..(pageCount - 1)
        /\ PagesOf(portraitSpread) \subseteq 0..(pageCount - 1)

SpreadPartitionWitness ==
    /\ loaded
    /\ isShowCover
    /\ pageCount = 4
    /\ landscapeSpread = << <<0>>, <<1, 2>>, <<3>> >>
    /\ portraitSpread = << <<0>>, <<1>>, <<2>>, <<3>> >>

realCount == Len(getSpread(FALSE))
virtualCount == Len(getSpread(TRUE))

\* the book is virtualized and its current orientation has a loop zone
Virtualized == loaded /\ totalVirtualPages # 0 /\ virtualCount > realCount

\* C2: under virtualization, whenever the virtual spread cursor lies inside
\* the loop zone the displayed real spread index equals centerIndex
PinnedInLoopZone ==
    (Virtualized /\ isInLoopZone(virtualSpreadIndex))
        => currentSpreadIndex = loopZone.centerIndex

\* C3: under virtualization, whenever the virtual spread cursor lies outside
\* the loop zone the real spread pointer is the real index of the virtual one
LockstepOutsideLoopZone ==
    (Virtualized /\ InRange(getSpread(TRUE), virtualSpreadIndex)
                 /\ ~isInLoopZone(virtualSpreadIndex))
        => currentSpreadIndex = getRealSpreadIndex(virtualSpreadIndex)

ZoneOf(r, v) == [centerIndex |-> Floor(r, 2), start |-> Floor(r, 2),
                 end |-> v - Floor(r, 2)]

\* C4: after createSpread in virtualized mode the loop zone of each
\* orientation with v > r is centerIndex = floor(r/2), start = floor(r/2),
\* end = v - start
LoopZoneFormula ==
    (loaded /\ totalVirtualPages # 0) =>
        IF revision = SingleZoneRevision
        THEN virtualCount > realCount =>
                [centerIndex |-> loopSpreadIndex, start |-> loopZoneStart,
                 end |-> loopZoneEnd] = ZoneOf(realCount, virtualCount)
        ELSE /\ Len(virtualLandscapeSpread) > Len(landscapeSpread) =>
                    landscapeLoopZone =
                        ZoneOf(Len(landscapeSpread), Len(virtualLandscapeSpread))
             /\ Len(virtualPortraitSpread) > Len(portraitSpread) =>
                    portraitLoopZone =
                        ZoneOf(Len(portraitSpread), Len(virtualPortraitSpread))

\* C5: outside the loop zone the virtual-to-real mapping is injective into
\* [0, r), over all virtual indices it is non-decreasing, and inside the loop
\* zone it is centerIndex
LoopZoneBijection ==
    Virtualized =>
        LET V == 0..(virtualCount - 1)
            Out == {vi \in V : vi < loopZone.start \/ vi >= loopZone.end}
        IN /\ \A vi \in Out : getRealSpreadIndex(vi) \in 0..(realCount - 1)
           /\ \A vi, vj \in Out :
                 vi # vj => getRealSpreadIndex(vi) # getRealSpreadIndex(vj)
           /\ \A vi, vj \in V :
                 vi <= vj => getRealSpreadIndex(vi) <= getRealSpreadIndex(vj)
           /\ \A vi \in V \ Out : getRealSpreadIndex(vi) = loopZone.centerIndex

LoopZoneBijectionWitness ==
    /\ Virtualized
    /\ realCount >= 3
    /\ loopZone.start >= 1
    /\ loopZone.end < virtualCount
    /\ loopZone.end > loopZone.start + 1

\* the virtual landscape spreads that hold virtual page p
VirtualSpreadsOf(p) ==
    {i \in 0..(Len(virtualLandscapeSpread) - 1) :
        isPageInSpread(p, At(virtualLandscapeSpread, i))}

\* C6 as stated: with 100 virtual pages over 6 real landscape spreads the
\* landscape loop zone is centerIndex 3, start 3, end 97 and virtual index 50
\* resolves to real spread 3
ScenarioZoneEnd97 ==
    (loaded /\ revision = LoopZoneRevision) =>
        /\ landscapeLoopZone = [centerIndex |-> 3, start |-> 3, end |-> 97]
        /\ getRealSpreadIndex(50) = 3

\* C6 as amended: the 100 virtual pages form 50 virtual landscape spreads,
\* the landscape loop zone is centerIndex 3, start 3, end 47, and virtual page
\* 50 lies in virtual spread 25, which resolves to real spread 3
ScenarioZoneEnd47 ==
    loaded =>
        IF revision = LoopZoneRevision
        THEN /\ Len(virtualLandscapeSpread) = 50
             /\ landscapeLoopZone = [centerIndex |-> 3, start |-> 3, end |-> 47]
             /\ VirtualSpreadsOf(50) = {25}
             /\ getRealSpreadIndex(25) = 3
        ELSE getVirtualSpreadIndex(50) = 3

ScenarioZoneWitness ==
    /\ loaded /\ revision = LoopZoneRevision
    /\ Len(landscapeSpread) = 6
    /\ lastOp = "showNext"
    /\ virtualSpreadIndex = 25
    /\ virtualPageIndex = 50
    /\ currentSpreadIndex = 3

\* C7 as stated: virtual index 96 resolves to the last real spread, index 5
ScenarioIndex96IsLast ==
    loaded =>
        IF revision = LoopZoneRevision
        THEN getRealSpreadIndex(96) = 5
        ELSE getVirtualSpreadIndex(96) = 5

\* C7 as amended: virtual page 96 (virtual spread 48) resolves to real spread
\* 4, the last but one; the last real spread, 5, is the image of virtual pages
\* 98 and 99 (virtual spread 49)
ScenarioPage96IsLastButOne ==
    loaded =>
        IF revision = LoopZoneRevision
        THEN /\ VirtualSpreadsOf(96) = {48}
             /\ getRealSpreadIndex(48) = 4
             /\ VirtualSpreadsOf(98) = {49} /\ VirtualSpreadsOf(99) = {49}
             /\ getRealSpreadIndex(49) = 5
        ELSE /\ getVirtualSpreadIndex(96) = 4
             /\ getVirtualSpreadIndex(98) = 5
             /\ getVirtualSpreadIndex(99) = 5

ScenarioPage96Witness ==
    /\ loaded /\ revision = LoopZoneRevision
    /\ Len(landscapeSpread) = 6
    /\ lastOp = "show"
    /\ virtualPageIndex = 96
    /\ virtualSpreadIndex = 48
    /\ currentSpreadIndex = 4
    /\ threw = NoThrow

\* C8: the spread cursors stay inside their arrays, and showNext / showPrev
\* raise no exception
TurnPastEndIsHarmless ==
    (loaded /\ realCount > 0) =>
        /\ InRange(getSpread(FALSE), currentSpreadIndex)
        /\ (totalVirtualPages # 0 =>
                IF revision = SpreadMapRevision
                THEN virtualCurrentPageIndex \in 0..(totalVirtualPages - 1)
                ELSE InRange(getSpread(TRUE), virtualSpreadIndex))
        /\ (lastOp \in {"showNext", "showPrev"} => threw = NoThrow)

\* a step that is a call of start() whose resolved direction is FORWARD at the
\* last page index, or BACK at page 0
StartAtBoundary ==
    /\ lastOp' = "start"
    /\ lastCall'.op = "start"
    /\ \/ lastCall'.direction = FORWARD /\ currentPageIndex = pageCount - 1
       \/ lastCall'.direction = BACK /\ currentPageIndex = 0

\* C9, as stated: start() with resolved direction FORWARD at the last page
\* index (BACK at page 0) returns false and leaves the flipping state, calc,
\* flippingPage and bottomPage as they were, those of a session that was live
\* before the call included.
StartRefusalLeavesSession ==
    [][StartAtBoundary => (lastCall'.started = "false" /\ session' = session)]_vars

\* C9, amended: start() with resolved direction FORWARD at the last page
\* index (BACK at page 0) returns false and leaves the flipping state and the
\* page cursor as they were, and it leaves no session: calc, flippingPage and
\* bottomPage are null after the call, whatever they were before it.
StartRefusalDropsSession ==
    [][StartAtBoundary =>
          /\ lastCall'.started = "false"
          /\ state' = state
          /\ cursor' = cursor
          /\ calc' = NoCalc
          /\ flippingPage' = Null
          /\ bottomPage' = Null]_vars

\* C9, witness: start() was refused at the boundary while a session was live
StartRefusalWitness ==
    /\ lastOp = "start"
    /\ lastCall.started = "false"
    /\ lastCall.live
    /\ \/ lastCall.direction = FORWARD /\ currentPageIndex = pageCount - 1
       \/ lastCall.direction = BACK /\ currentPageIndex = 0
    /\ state # READ
    /\ calc = NoCalc

\* a step that is a call of fold, flip or showCorner in which start() answered
\* false
AbortedCall ==
    /\ lastOp' \in {"fold", "flip", "showCorner"}
    /\ lastCall'.op = lastOp'
    /\ lastCall'.started = "false"

\* C10: when start() returns false inside fold, flip or showCorner, the
\* flipping state, the page cursor and the render sink are after the call
\* exactly as before it, and no exception is raised.
StartFailureAbortsSilently ==
    [][AbortedCall =>
          /\ state' = state
          /\ cursor' = cursor
          /\ sink' = sink
          /\ renderSink' = renderSink
          /\ flipThrew' = NoThrow]_vars

\* a step that is a call of stopMove() on a live session with a release point
StopMoveCall ==
    /\ lastOp' = "stopMove"
    /\ calc # NoCalc
    /\ calc.position # << >>
    /\ flipThrew' = NoThrow

\* stopMove() selects the far edge and isTurned iff x <= 0, the origin edge
\* and not isTurned otherwise
StopMoveSelects ==
    StopMoveCall =>
        /\ animation'.live
        /\ IF calc.position[1] <= 0
           THEN animation'.dest[1] = 0 - Rect.pageWidth /\ animation'.isTurned
           ELSE animation'.dest[1] = Rect.pageWidth /\ ~animation'.isTurned

StartOnLiveSession ==
    /\ lastOp' \in {"start", "flip"}
    /\ lastCall'.op = lastOp'
    /\ lastCall'.live
    /\ ~animation.live

\* calc, flippingPage and bottomPage are those of a session started in the
\* direction start() resolved, from the spread that is current
NewSessionOnly ==
    /\ calc'.direction = lastCall'.direction
    /\ calc'.corner \in {TOP, BOTTOM}
    /\ flippingPage' = getFlippingPage(currentSpreadIndex, lastCall'.direction).page
    /\ bottomPage' = getBottomPage(currentSpreadIndex, lastCall'.direction).page

FlipCompletes ==
    /\ animation.live
    /\ animation.by = "flip"
    /\ \/ lastOp' = "animationEnd"
       \/ lastOp' = "flip" /\ calc # NoCalc /\ lastCall'.started # "none"

\* C13: every flip() whose start() succeeds commits: when its animation
\* completes, naturally or through finishAnimation, the page cursor is moved
\* by one spread for that flip.
FlipAlwaysCommits ==
    [][FlipCompletes =>
          currentSpreadIndex' \in {currentSpreadIndex - 1, currentSpreadIndex + 1}]_vars

\* C14: when an animation that turns the page completes, the page cursor has
\* been moved by one spread, the render's flipping page and bottom page are
\* null, the shadow is cleared, the flipping state is READ and the session is
\* dropped.
TurnCompletionSideEffects ==
    [][(lastOp' = "animationEnd" /\ animation.isTurned) =>
          /\ currentSpreadIndex' \in {currentSpreadIndex - 1, currentSpreadIndex + 1}
          /\ renderFlippingPage' = Null
          /\ renderBottomPage' = Null
          /\ ~shadow'
          /\ state' = READ
          /\ calc' = NoCalc
          /\ flippingPage' = Null
          /\ bottomPage' = Null]_vars

\* the same, for the completions that find a session
TurnCompletionWithSession ==
    [][(lastOp' = "animationEnd" /\ animation.isTurned /\ calc # NoCalc) =>
          /\ currentSpreadIndex' \in {currentSpreadIndex - 1, currentSpreadIndex + 1}
          /\ renderFlippingPage' = Null
          /\ renderBottomPage' = Null
          /\ ~shadow'
          /\ state' = READ
          /\ calc' = NoCalc
          /\ flippingPage' = Null
          /\ bottomPage' = Null]_vars

\* a step in which flip() or stopMove() hands a committed (turning) animation
\* to the render
CommittedAnimationStarts ==
    /\ lastOp' \in {"flip", "stopMove"}
    /\ flipThrew' = NoThrow
    /\ animation'.live
    /\ animation'.isTurned
    /\ animation'.by = lastOp'

\* C15: the flipping state follows READ -> USER_FOLD | FOLD_CORNER ->
\* FLIPPING -> READ: a committed animation, started by flip() or by
\* stopMove() after a drag, runs in state FLIPPING, and READ is re-entered
\* only in a step that finds an animation in flight and completes it.
CommittedAnimationRunsInFlipping ==
    [][/\ CommittedAnimationStarts => state' = FLIPPING
       /\ (state # READ /\ state' = READ) => animation.live]_vars

\* the committed-animation path has frames pending that will write the pages
\* of the live session through do()
PendingFrames == animation.live /\ animation.frames # << >> /\ calc # NoCalc

\* the cover-lift loop has a frame scheduled that will write the pages of the
\* live session through updateCoverPosition() and do()
PendingCover == coverAnimation.scheduled /\ calc # NoCalc

\* C16: the geometry of the session's pages is written by at most one path
\* at a time: a drag (fold / do) leaves neither animation frames nor a
\* cover-lift frame pending on the session it writes, and the committed
\* animation and the cover-lift loop are never pending on the same session.
ExclusiveWriter ==
    [][/\ (lastOp' = "fold" /\ calc' # NoCalc) =>
             (~PendingFrames' /\ ~PendingCover')
       /\ ~(PendingFrames' /\ PendingCover')]_vars

\* a step in which start() opens a new session while the render has an
\* animation in flight
NewSessionWhileAnimating ==
    /\ lastCall'.op = lastOp'
    /\ lastCall'.started = "true"
    /\ animation.live

\* C17: whenever a new session is started while an animation is in flight,
\* the animation is force-completed through render.finishAnimation() before
\* start() resets the session: the call is a flip() that found a session,
\* which is what makes it call finishAnimation() before start().
PriorAnimationFinishedFirst ==
    [][NewSessionWhileAnimating => (lastOp' = "flip" /\ calc # NoCalc)]_vars

\* a step, taken while a cover-lift frame is scheduled, in which reset() runs
\* (start(), reached directly or through fold / flip) or a competing path
\* starts: a fold drag, a flip, or the animation of stopMove()
CompetingPathStarts ==
    /\ coverAnimation.scheduled
    /\ flipThrew' = NoThrow
    /\ \/ lastOp' = "start"
       \/ lastOp' = "fold"
       \/ lastOp' = "flip" /\ lastCall'.started # "none"
       \/ lastOp' = "stopMove" /\ calc # NoCalc

\* C18: the cover-lift animation is cancelled whenever reset() runs or a
\* competing path (fold drag, flip, stopMove animation) starts: after the
\* call no cover-lift frame remains scheduled, so that no later cover-lift
\* step writes geometry into the page.
CoverLiftCancelled ==
    [][CompetingPathStarts => ~coverAnimation'.scheduled]_vars

\* reset() itself cancels the frame: every call that reaches start() leaves
\* no cover-lift frame scheduled
ResetCancelsCoverLift ==
    [][(/\ coverAnimation.scheduled
        /\ lastOp' \in {"start", "fold", "flip"}
        /\ lastCall'.started # "none") => ~coverAnimation'.scheduled]_vars

\* C19: no exception escapes to the caller from the steady-state gesture
\* path: fold (and the do() it calls), the frames and the completion callback
\* of the animation and the cover-lift frames return normally in every
\* reachable state and for every input point.
GesturePathNeverThrows ==
    [][lastOp' \in {"fold", "frame", "animationEnd", "coverFrame"}
          => flipThrew' = NoThrow]_vars

\* getCurrentSpreadIndex() of PageCollection.ts
getCurrentSpreadIndexMap ==
    IF isVirtualMode THEN getVirtualSpreadIndex(virtualCurrentPageIndex)
    ELSE currentSpreadIndex

\* the spread next to the current one in the direction dir, << >> if none
AdjacentSpreadMap(dir) ==
    spreadAtMap(IF dir = FORWARD THEN getCurrentSpreadIndexMap + 1
                ELSE getCurrentSpreadIndexMap - 1)

\* flipping and bottom are the members of the spread adj that the direction
\* selects: FORWARD left and right, BACK right and left, the only page of a
\* one-page spread for both
TurnPagesOf(adj, dir, flipping, bottom) ==
    /\ flipping.threw = NoThrow
    /\ bottom.threw = NoThrow
    /\ flipping.page = (IF dir = FORWARD THEN adj[1] ELSE adj[Len(adj)])
    /\ bottom.page = (IF dir = FORWARD THEN adj[Len(adj)] ELSE adj[1])

\* a landscape book of PageCollection.ts in which a turn in direction dir can
\* start: the direction is permitted and the adjacent spread exists
TurnCanStartMap(dir) ==
    /\ loaded /\ threw = NoThrow
    /\ revision = SpreadMapRevision
    /\ orientation = LANDSCAPE
    /\ checkDirection(World, dir)
    /\ AdjacentSpreadMap(dir) # << >>

\* C20: in landscape getFlippingPage(direction) and getBottomPage(direction)
\* return the members of the spread adjacent to the current one in that
\* direction (FORWARD: flipping its left member, bottom its right member;
\* BACK: flipping right, bottom left; a one-page spread the same page for
\* both), in non-virtual and in virtualized mode.
TurnPagesFromAdjacentSpread ==
    \A dir \in {FORWARD, BACK} :
        TurnCanStartMap(dir) =>
            TurnPagesOf(AdjacentSpreadMap(dir), dir,
                        getFlippingPageMap(currentSpreadIndex, dir),
                        getBottomPageMap(currentSpreadIndex, dir))

\* the same in non-virtual mode only
TurnPagesFromAdjacentSpreadNonVirtual ==
    ~isVirtualMode => TurnPagesFromAdjacentSpread

\* the spreads of the current orientation that hold page p
SpreadsHolding(p) ==
    {i \in 0..(Len(getSpread(FALSE)) - 1) :
        \E k \in 1..Len(At(getSpread(FALSE), i)) : At(getSpread(FALSE), i)[k] = p}

\* the book of the scenario: 10 pages, covers shown, landscape
TenPagesWithCovers ==
    /\ loaded /\ threw = NoThrow
    /\ revision = LoopZoneRevision
    /\ pageCount = 10 /\ isShowCover /\ orientation = LANDSCAPE

\* C21: getSpreadIndexByPage(p) returns the index of the spread of the
\* current orientation that contains p, for every p in [0, n); with 10 pages,
\* covers shown, landscape, the spreads are [[0],[1,2],[3,4],[5,6],[7,8],[9]]
\* and getSpreadIndexByPage(4) = 2.
SpreadIndexByPage ==
    /\ (loaded /\ threw = NoThrow /\ revision = LoopZoneRevision) =>
          \A p \in 0..(pageCount - 1) :
              SpreadsHolding(p) = {getSpreadIndexByPage(p)}
    /\ TenPagesWithCovers =>
          /\ landscapeSpread = << <<0>>, <<1, 2>>, <<3, 4>>, <<5, 6>>, <<7, 8>>, <<9>> >>
          /\ getSpreadIndexByPage(4) = 2

SpreadIndexByPageWitness ==
    /\ TenPagesWithCovers
    /\ getSpreadIndexByPage(4) = 2
    /\ lastOp = "show"

\* getPageCount() of PageCollection.ts
PageCountMap == IF isVirtualMode THEN totalVirtualPages ELSE pageCount

\* C22: getSpreadIndexByPage(p) returns the not-found signal null for every
\* page number p outside [0, pageCount), in non-virtual mode and under
\* virtualization.
OutsidePageIsNotFound ==
    (loaded /\ threw = NoThrow /\ revision = SpreadMapRevision) =>
        \A p \in {0 - 2, 0 - 1, PageCountMap, PageCountMap + 1} :
            getSpreadIndexByPageMap(p) = Null

\* the same in non-virtual mode only
OutsidePageIsNotFoundNonVirtual ==
    ~isVirtualMode => OutsidePageIsNotFound

\* C23: setCurrentSpreadIndex(i) sets the current spread index to i when
\* 0 <= i < spreadCount of the current orientation, and otherwise fails with
\* the invalid-argument error and leaves the current spread index unchanged,
\* in every mode, including virtualized mode.
SetCurrentSpreadIndexContract ==
    loaded =>
        \A i \in (0 - 1)..(MaxPages + 1) :
            setCurrentSpreadIndex(i) =
                IF i >= 0 /\ i < Len(getSpread(FALSE))
                THEN [csi |-> i, threw |-> NoThrow]
                ELSE [csi |-> currentSpreadIndex, threw |-> InvalidPage]

\* the same outside the virtual mode of PageCollection.ts
SetCurrentSpreadIndexContractElsewhere ==
    ~(revision = SpreadMapRevision /\ isVirtualMode) => SetCurrentSpreadIndexContract

\* a show() with no argument called right after a switch of orientation,
\* with a page shown before the switch
ShowAfterSwitch ==
    /\ lastOp = "orientation"
    /\ lastOp' = "show"
    /\ pageCount > 0
    /\ threw' = NoThrow

\* the page the book was at: the virtual page under virtualization
PageBeforeSwitch ==
    IF totalVirtualPages = 0 THEN currentPageIndex
    ELSE IF revision = SpreadMapRevision THEN virtualCurrentPageIndex
    ELSE virtualPageIndex

\* C24: switching orientation and then calling show() re-derives the current
\* spread from the current page: afterwards the current spread index is the
\* index, in the new orientation's partition, of the spread containing the
\* page that was current before the switch (checked where virtual and real
\* pages coincide, that is without virtualization or with as many virtual as
\* real pages), and under virtualization the virtual position is preserved:
\* the virtual page cursor of PageCollection.ts is unchanged, the virtual
\* spread of part_000 holds the virtual page the book was at.
ShowRederivesSpread ==
    [][ShowAfterSwitch =>
          /\ (totalVirtualPages = 0 \/ totalVirtualPages = pageCount) =>
                SpreadsHolding(PageBeforeSwitch) = {currentSpreadIndex'}
          /\ (totalVirtualPages # 0 /\ revision = SpreadMapRevision) =>
                virtualCurrentPageIndex' = virtualCurrentPageIndex
          /\ (totalVirtualPages # 0 /\ revision = LoopZoneRevision) =>
                /\ InRange(getSpread(TRUE), virtualSpreadIndex')
                /\ isPageInSpread(virtualPageIndex,
                                  At(getSpread(TRUE), virtualSpreadIndex'))]_vars

\* the same without virtualization
ShowRederivesSpreadNonVirtual ==
    [][(ShowAfterSwitch /\ totalVirtualPages = 0) =>
          SpreadsHolding(currentPageIndex) = {currentSpreadIndex'}]_vars

\* a loaded, virtualized book with pages
VirtualizedBook == loaded /\ pageCount > 0 /\ totalVirtualPages # 0

\* every virtual position resolves to a real spread of the current
\* orientation: virtual pages through getVirtualSpreadIndex in
\* PageCollection.ts, virtual spreads through getRealSpreadIndex in part_000
VirtualPositionsResolve ==
    IF revision = SpreadMapRevision
    THEN \A vp \in 0..(totalVirtualPages - 1) :
             InRange(getSpread(FALSE), getVirtualSpreadIndex(vp))
    ELSE \A vi \in 0..(Len(getSpread(TRUE)) - 1) :
             InRange(getSpread(FALSE), getRealSpreadIndex(vi))

\* the spread map held is the one setupVirtualSpreadMapping computes for the
\* partition of the current orientation
SpreadMapIsCurrent ==
    revision = SpreadMapRevision =>
        virtualSpreadMap =
            setupVirtualSpreadMapping(pageCount, Len(getSpread(FALSE)), orientation,
                                      totalVirtualPages)

\* C25: inconsistent virtualization state cannot occur: in every reachable
\* state (after createSpread, a change of orientation, a move of the cursor)
\* every virtual position resolves to a defined real spread index within
\* [0, realSpreadCount) of the current orientation, and the spread-map data
\* used is the one computed for the current partition and orientation.
ConsistentVirtualization ==
    VirtualizedBook => (VirtualPositionsResolve /\ SpreadMapIsCurrent)

\* the constructor's one call of getSettings on the user's configuration
GetSettings ==
    /\ ~flipSetting.called
    /\ \E present \in SUBSET {"size", "width", "height", "flippingTime"},
          size \in {FIXED, STRETCH, "auto"},
          width \in {-1, 0, 2}, height \in {-1, 0, 3},
          flippingTime \in {-1, 0, 1000},
          minWidth \in {0, 5}, maxWidth \in {1, 9},
          minHeight \in {0, 5}, maxHeight \in {1, 9} :
        LET userSetting == [size |-> size, width |-> width, height |-> height,
                            minWidth |-> minWidth, maxWidth |-> maxWidth,
                            minHeight |-> minHeight, maxHeight |-> maxHeight,
                            flippingTime |-> flippingTime]
            all == present \cup {"minWidth", "maxWidth", "minHeight",
                                 "maxHeight"}
            got == getSettings(all, userSetting)
        IN flipSetting' = [called |-> TRUE,
                           input |-> MergeSetting(all, userSetting),
                           threw |-> got.threw, result |-> got.result]
    /\ lastOp' = "getSettings"
    /\ UNCHANGED <<config, book, cursor, sink, threw, v1Zone, mapVars,
                   coverDuration, disableFlipByClick, startFinishesPrior,
                   session, coverAnimation, animation, renderSink, flipThrew,
                   lastCall>>

NextSettings == GetSettings

SpecSettings == Init /\ [][NextSettings]_vars

\* C26: getSettings answers an unrecognized size mode, a width <= 0, a
\* height <= 0 or a flippingTime <= 0 with an error and returns no settings
\* object; every FIXED configuration it accepts comes back with
\* minWidth = maxWidth = width and minHeight = maxHeight = height
InvalidSettingsRejected ==
    flipSetting.called =>
        /\ (\/ flipSetting.input.size \notin {FIXED, STRETCH}
            \/ flipSetting.input.width <= 0
            \/ flipSetting.input.height <= 0
            \/ flipSetting.input.flippingTime <= 0)
               => (flipSetting.threw # NoThrow /\ flipSetting.result = {})
        /\ \A r \in flipSetting.result :
               r.size = FIXED =>
                   /\ r.minWidth = r.width /\ r.maxWidth = r.width
                   /\ r.minHeight = r.height /\ r.maxHeight = r.height
                   /\ r.width = flipSetting.input.width
                   /\ r.height = flipSetting.input.height

\* C26 witness: a FIXED configuration whose bounds differed from its size
\* was accepted, and so was rewritten
FixedSettingsAccepted ==
    /\ flipSetting.called
    /\ flipSetting.threw = NoThrow
    /\ flipSetting.input.size = FIXED
    /\ flipSetting.input.maxWidth # flipSetting.input.width
    /\ flipSetting.result # {}

\* the drag has been released
DragReleased == lastOp = "stopMove"

\* C27: after fold(p1) ... fold(pk) and stopMove(), with the animation
\* frames scheduled fairly, the flipping state eventually is READ and no
\* session is left, also when start() refused the gesture at a page boundary
ReleasedDragReturnsToRead ==
    DragReleased ~> (state = READ /\ calc = NoCalc)

\* the same for the drags in which start() opened a session and the
\* calculator took a point: the release animates and the callback resets
StartedDragReturnsToRead ==
    (DragReleased /\ calc # NoCalc /\ flipThrew = NoThrow)
        ~> (state = READ /\ calc = NoCalc)

\* the release of a drag that start() refused: USER_FOLD and no session
RefusedDragReleased ==
    DragReleased /\ calc = NoCalc /\ state = USER_FOLD

\* C28: fold(point) calls start() only when no session exists; on a live
\* session it leaves the session's direction, corner, flippingPage and
\* bottomPage as they are and touches nothing but the calculator's point and
\* the render sink; after every fold the flipping state is USER_FOLD
FoldKeepsLiveSession ==
    [][lastOp' = "fold" =>
        /\ state' = USER_FOLD
        /\ (calc = NoCalc) <=> (lastCall'.started # "none")
        /\ calc # NoCalc =>
            /\ calc'.direction = calc.direction
            /\ calc'.corner = calc.corner
            /\ flippingPage' = flippingPage
            /\ bottomPage' = bottomPage
            /\ UNCHANGED <<cursor, sink, animation, coverAnimation,
                           direction>>]_vars

\* C28 witness: a fold has run on a live session, without a start(), and
\* the calculator holds a point
FoldOnLiveSession ==
    /\ lastOp = "fold"
    /\ lastCall.started = "none"
    /\ calc # NoCalc
    /\ calc.position # << >>
    /\ state = USER_FOLD

\* C29: a frame whose calc(point) answers false changes nothing that can be
\* observed: do() writes no page state and makes no call of the render sink
\* (the calculator's own fields are left out of the comparison)
RefusedPointChangesNothing ==
    \A p \in Points :
        [do(World, p, FALSE) EXCEPT !.calc = calc] = World

\* C29 witness: a fold has opened a session and its point was refused by
\* calc: the session is live, no page and no shadow has reached the render
RefusedPointOnLiveSession ==
    /\ lastOp = "fold"
    /\ lastCall.started = "true"
    /\ calc # NoCalc
    /\ calc.position = << >>
    /\ flippingPage \notin {Null, Undefined}
    /\ bottomPage \notin {Null, Undefined}
    /\ renderFlippingPage = Null
    /\ ~shadow

\* showCorner has entered start(): the pointer is on a corner and no session
\* was live
CornerEntered == lastOp' = "showCorner" /\ lastCall'.started # "none"

\* the branch showCorner takes once the session is open
CornerBranch ==
    IF coverDuration > 0 /\ flippingPage' \notin {Null, Undefined}
                         /\ At(density, flippingPage') = HARD
    THEN /\ coverAnimation'.isActive
         /\ coverAnimation'.isLifting
         /\ animation' = animation
    ELSE /\ animation'.live
         /\ animation'.by = "showCorner"
         /\ ~animation'.isTurned
         /\ ~animation'.needReset

\* the completion callback of the nudge leaves the cursor and the session
NudgeCompletionKeeps ==
    (lastOp' = "animationEnd" /\ animation.by = "showCorner")
        => /\ UNCHANGED <<cursor, sink, calc, flippingPage, bottomPage, state>>

CoverLiftStarted ==
    /\ lastOp = "showCorner"
    /\ lastCall.started = "true"
    /\ state = FOLD_CORNER
    /\ coverAnimation.isActive
    /\ coverAnimation.isLifting

\* a showCorner that start() refused: no session, no FOLD_CORNER
CornerRefused ==
    /\ lastOp = "showCorner"
    /\ lastCall.started = "false"
    /\ calc = NoCalc
    /\ state = READ

\* the lift progress of the cover as the last cover frame drew it, in 1/1000
LiftProgress ==
    IF coverAnimation.duration = 0 THEN 0 ELSE progressAt(coverAnimation)

\* showCorner has started to lower the cover
LoweringStarted ==
    /\ lastOp' = "showCorner"
    /\ coverAnimation'.isActive
    /\ ~coverAnimation'.isLifting

\* the state goes back to READ from the fold of a lifted cover
CoverStateReturns ==
    /\ state = FOLD_CORNER
    /\ state' = READ
    /\ coverDuration > 0
    /\ flippingPage \notin {Null, Undefined}
    /\ At(density, flippingPage) = HARD
    /\ lastOp' \in {"showCorner", "coverFrame"}

\* C31: when the pointer leaves the corner of a HARD page with
\* coverDuration > 0 the cover is lowered by the cover animation from the
\* lift progress it has (1 after a completed lift, the intermediate progress
\* of a running lift) to 0, and the state returns to READ only when that
\* lowering finishes
CoverEasesDown ==
    [][/\ LoweringStarted =>
            /\ coverAnimation'.startProgress = LiftProgress
            /\ coverAnimation'.targetProgress = 0
       /\ CoverStateReturns =>
            /\ lastOp' = "coverFrame"
            /\ ~coverAnimation.isLifting
            /\ ~coverAnimation'.isActive]_vars

\* the same for the lowerings that interrupt a lift that is still running
RunningLiftEasesDown ==
    [][/\ (LoweringStarted /\ coverAnimation.isActive) =>
            /\ coverAnimation'.startProgress = LiftProgress
            /\ coverAnimation'.targetProgress = 0
       /\ CoverStateReturns =>
            /\ lastOp' = "coverFrame"
            /\ ~coverAnimation.isLifting
            /\ ~coverAnimation'.isActive]_vars

\* the lift of the cover has completed and the pointer is still on the corner
LiftCompleted ==
    /\ state = FOLD_CORNER
    /\ ~coverAnimation.isActive
    /\ coverAnimation.isLifting
    /\ coverAnimation.duration > 0
    /\ LiftProgress = 1000

\* C32: the hard angle do() writes is 90 * (200 - 2 * progress) / 100 for
\* FORWARD and its negation for BACK; over the progress 0..100 its magnitude
\* stays within 0..180 degrees, is 180 at progress 0 and 0 at progress 100
\* and falls strictly as the progress grows (angles in 1/100 of a degree)
HardAngleSweep ==
    /\ \A progress \in 0..100 :
        /\ hardAngle(FORWARD, progress) \in 0..18000
        /\ hardAngle(BACK, progress) = 0 - hardAngle(FORWARD, progress)
        /\ 100 * hardAngle(FORWARD, progress) = 100 * 90 * (200 - 2 * progress)
    /\ hardAngle(FORWARD, 0) = 18000
    /\ hardAngle(FORWARD, 100) = 0
    /\ \A progress \in 0..99 :
        hardAngle(FORWARD, progress + 1) < hardAngle(FORWARD, progress)
    /\ \A p \in Points :
        do(World, p, TRUE).hardAngle \in (0 - 18000)..18000

\* C32 witness: a frame of a FORWARD session gave the flipping page a hard
\* angle strictly between 0 and 180 degrees
ForwardHardAngleWritten ==
    /\ lastOp \in {"fold", "frame"}
    /\ calc.direction = FORWARD
    /\ calc.position # << >>
    /\ renderFlippingPage = flippingPage
    /\ shadow
    /\ hardAngle(FORWARD, getFlippingProgress(calc.position)) \in 1..17999

\* coordinates on the edges, around the threshold and between the two
\* diagonals' thresholds
ProbeX == {0, 1, 99, 100, 120, 500, 501, 600}
ProbeY == {0, 50, 100, 120, 300, 301, 400}

\* d is less than the diagonal of a w by h rectangle over the divisor
WithinDiagonal(d, w, h) ==
    (d * cornerSensitivity) * (d * cornerSensitivity) < w * w + h * h

\* strictly inside the book and, by the diagonal of a w by h rectangle, near
\* a vertical edge and near a horizontal edge
InCornerSquare(pos, w, h) ==
    /\ pos[1] > 0 /\ pos[1] < Rect.width
    /\ pos[2] > 0 /\ pos[2] < Rect.height
    /\ WithinDiagonal(pos[1], w, h) \/ WithinDiagonal(Rect.width - pos[1], w, h)
    /\ WithinDiagonal(pos[2], w, h) \/ WithinDiagonal(Rect.height - pos[2], w, h)

\* C33: in a loaded book a point is on a corner iff it is strictly inside the book rect and
\* within the threshold of a vertical and of a horizontal edge, the threshold
\* being the diagonal of the book over the sensitivity divisor
CornerByBookDiagonal ==
    FlipReady =>
        \A x \in ProbeX, y \in ProbeY :
            isPointOnCorners(<<x + Rect.left, y + Rect.top>>)
                <=> InCornerSquare(<<x, y>>, Rect.width, Rect.height)

\* C33 as amended: the threshold is the diagonal of one page (pageWidth by
\* height) over the sensitivity divisor
CornerByPageDiagonal ==
    FlipReady =>
        \A x \in ProbeX, y \in ProbeY :
            isPointOnCorners(<<x + Rect.left, y + Rect.top>>)
                <=> InCornerSquare(<<x, y>>, Rect.pageWidth, Rect.height)

\* C33 witness: showCorner took a point for a corner and entered start(), and
\* a point between the two thresholds is not on a corner
CornerPointTaken ==
    /\ lastOp = "showCorner"
    /\ lastCall.started # "none"
    /\ ~isPointOnCorners(<<120 + Rect.left, 50 + Rect.top>>)
    /\ InCornerSquare(<<120, 50>>, Rect.width, Rect.height)

\* C34: after createSpread page 0 is HARD when covers are shown, the page of
\* every one-page landscape spread is HARD, and the pages of the two-page
\* spreads, page 0 under covers apart, have the density they were loaded with
SpreadDensities ==
    loaded =>
        /\ (isShowCover /\ pageCount > 0) => density[1] = HARD
        /\ \A i \in 1..Len(landscapeSpread) :
             Len(landscapeSpread[i]) = 1
                => density[landscapeSpread[i][1] + 1] = HARD
        /\ \A dens \in [1..pageCount -> {SOFT, HARD}] :
             \A i \in 1..Len(landscapeSpread) :
                Len(landscapeSpread[i]) = 2 =>
                    \A k \in 1..2 :
                        createSpreadDensity(pageCount, isShowCover, dens)
                                [landscapeSpread[i][k] + 1]
                            = dens[landscapeSpread[i][k] + 1]

\* C34 witness: four pages loaded with covers: the cover and the trailing
\* solo page are HARD, the pair between them kept a SOFT and a HARD page
CoverPairSolo ==
    /\ loaded
    /\ isShowCover
    /\ landscapeSpread = << <<0>>, <<1, 2>>, <<3>> >>
    /\ density = <<HARD, SOFT, HARD, HARD>>

\* the spread of the page the last flipToPage was asked for
TargetSpread == getSpreadIndexByPage(lastCall'.page)

\* C35: flipToPage(p, corner) for a valid page p of another spread turns to
\* it: when the animation it started completes, the current spread index is
\* getSpreadIndexByPage(p); for a page of the current spread flipToPage
\* changes nothing and starts no animation
FlipToPageArrives ==
    [][/\ (lastOp' = "animationEnd" /\ animation.page # Null
              /\ getSpreadIndexByPage(animation.page) # Null)
          => currentSpreadIndex' = getSpreadIndexByPage(animation.page)
       /\ (lastOp' = "flipToPage" /\ TargetSpread = currentSpreadIndex)
          => UNCHANGED <<cursor, sink, session, animation, coverAnimation,
                         renderSink>>]_vars

\* C36: flipToPage(p, corner) for a page outside [0, pageCount), or one
\* whose flip cannot start, is "nothing happened": the current spread index
\* is unchanged, no animation is started and no exception is raised
FlipToPageFailsSilently ==
    [][(lastOp' = "flipToPage"
           /\ (TargetSpread = Null \/ lastCall'.started # "true"))
          => /\ currentSpreadIndex' = currentSpreadIndex
             /\ animation' = animation
             /\ flipThrew' = NoThrow]_vars

\* calc, flippingPage and bottomPage are all null or all set
SessionAllOrNone ==
    \/ calc = NoCalc /\ flippingPage = Null /\ bottomPage = Null
    \/ calc # NoCalc /\ flippingPage # Null /\ bottomPage # Null

\* C37: between operations, whenever the flipping state is READ no session
\* exists, and calc, flippingPage and bottomPage are either all null or all
\* non-null
ReadMeansNoSession ==
    /\ state = READ => calc = NoCalc
    /\ SessionAllOrNone

\* the cursors showPrev leaves when it is called right after a showNext that
\* started from the cursors csi / vsi
NextThenPrev(csi, vsi) ==
    showPrevStepOf(showNextStepOf(csi, vsi).csi, showNextStepOf(csi, vsi).vsi)

\* C38: from any state in which showNext moves the cursor, showNext followed
\* by showPrev brings the real spread index and the virtual spread cursor,
\* and with them the reported page index, back to what they were
NextPrevIsIdentity ==
    (loaded /\ showNextStepOf(currentSpreadIndex, virtualSpreadIndex).show) =>
        /\ NextThenPrev(currentSpreadIndex, virtualSpreadIndex).csi
              = currentSpreadIndex
        /\ NextThenPrev(currentSpreadIndex, virtualSpreadIndex).vsi
              = virtualSpreadIndex

\* the same without virtualization
NextPrevIsIdentityNonVirtual ==
    (loaded /\ totalVirtualPages = 0
            /\ showNextStepOf(currentSpreadIndex, virtualSpreadIndex).show) =>
        /\ NextThenPrev(currentSpreadIndex, virtualSpreadIndex).csi
              = currentSpreadIndex
        /\ NextThenPrev(currentSpreadIndex, virtualSpreadIndex).vsi
              = virtualSpreadIndex

\* show(p) lands on p: showSpread runs, the virtual spread under the virtual
\* cursor holds p, the reported page index is that spread's first page and
\* the real cursor is the one the loop-zone mapping gives the virtual cursor
ShowLandsOn(p) ==
    /\ showStep(p).show
    /\ InRange(getSpread(TRUE), showStep(p).vsi)
    /\ isPageInSpread(p, At(getSpread(TRUE), showStep(p).vsi))
    /\ showSpread(showStep(p).csi, showStep(p).vsi).evt
          = At(getSpread(TRUE), showStep(p).vsi)[1]
    /\ showStep(p).csi = getRealSpreadIndex(showStep(p).vsi)

\* C39: under virtualization, show(p) moves the cursor to p for every page
\* number p in [0, totalVirtualPages)
ShowReachesEveryVirtualPage ==
    (loaded /\ revision = LoopZoneRevision /\ totalVirtualPages # 0) =>
        \A p \in 0..(totalVirtualPages - 1) : ShowLandsOn(p)

\* C40: showCorner acts only in READ and FOLD_CORNER: called in USER_FOLD or
\* FLIPPING, with any point, it leaves the flipping state, the session, the
\* cover animation and the render sink as they were
ShowCornerOnlyWhenAtRest ==
    [][(lastOp' = "showCorner" /\ state \in {USER_FOLD, FLIPPING}) =>
          UNCHANGED <<session, coverAnimation, renderSink>>]_vars

\* C40 witness: showCorner was called while a page was flipping
ShowCornerWhileFlipping ==
    /\ lastOp = "showCorner"
    /\ state = FLIPPING

\* showCorner was called during a drag
ShowCornerWhileDragging ==
    /\ lastOp = "showCorner"
    /\ state = USER_FOLD

====
